---------------------------- MODULE Spec2Model ----------------------------
(***************************************************************************)
(* A model of the Viture HID protocol driver, src/viture_connection.c:     *)
(* the CRC engine, the frame codec (cmd_build / parse_rsp), the            *)
(* synchronous command primitive (cmd_exec, cmd_wait, cmd_release), the    *)
(* two reader threads (mcu_thread, imu_thread) and the driver lifecycle    *)
(* (viture_driver_init / viture_driver_close).                             *)
(*                                                                         *)
(* Byte buffers are sequences of 0..255; C offset k is index k+1.          *)
(* Multi-byte integers are little-endian (the x86/ARM hosts the driver is  *)
(* built for).                                                             *)
(***************************************************************************)
EXTENDS Integers, Sequences, FiniteSets, TLC

(***************************************************************************)
(* Bounds of the model.                                                    *)
(***************************************************************************)
\* application threads that call set_imu concurrently
NumCallers == 2
\* set_imu calls each application thread makes
MaxCalls == 1
\* unsolicited frames the device sends (events on the control channel and
\* samples on the sensor channel, together)
MaxFrames == 1
\* API calls the lifecycle thread makes (viture_driver_init,
\* viture_driver_close, viture_set_*_callback)
MaxLifeOps == 2

(***************************************************************************)
(* Program constants.                                                      *)
(***************************************************************************)
PacketSize == 64
RspBufSize == 256
HeaderLen == 18
MinLenField == 12
CrcPolynomial == 4129
SetImuCmdId == 21
ParseErrId == 65535
NULL == 0
ETIMEDOUT == 110

\* A C uint (32 bits) is kept as its two 16-bit halves, value hi * 65536 + lo:
\* the sentinels below do not fit the model checker's integers.
Uint(hi, lo) == [hi |-> hi, lo |-> lo]
\* 0xFFFFFFFD, 0xFFFFFFFE, 0xFFFFFFFF
ErrNotInit == Uint(65535, 65533)
ErrTimeout == Uint(65535, 65534)
ErrWrite == Uint(65535, 65535)

Byte == 0..255

(***************************************************************************)
(* 16-bit arithmetic.                                                      *)
(***************************************************************************)
\* bit k of a
Bit(a, k) == (a \div (2 ^ k)) % 2
\* bit k of a XOR b, in place
XorBit(a, b, k) == (2 ^ k) * ((Bit(a, k) + Bit(b, k)) % 2)
\* a ^ b for two 4-bit values
Xor4(a, b) == XorBit(a, b, 0) + XorBit(a, b, 1) + XorBit(a, b, 2) + XorBit(a, b, 3)
\* the 16 x 16 values of Xor4, computed once: entry (a, b) is at a * 16 + b + 1
Xor4Table == [i \in 1..256 |-> Xor4((i - 1) \div 16, (i - 1) % 16)] \o << >>
\* a ^ b for two bytes
Xor8(a, b) ==
    16 * Xor4Table[(a \div 16) * 16 + (b \div 16) + 1]
    + Xor4Table[(a % 16) * 16 + (b % 16) + 1]
\* a ^ b truncated to ushort
Xor16(a, b) ==
    256 * Xor8((a \div 256) % 256, (b \div 256) % 256) + Xor8(a % 256, b % 256)

\* a sequence given as a function, as an explicit tuple
AsSeq(f) == f \o << >>

Zeros(n) == AsSeq([i \in 1..n |-> 0])

\* byte at C offset off of buf; bytes past the end of the sequence read as 0
\* (callers that may run past the end report it separately, see parse_rsp)
At(buf, off) == IF off + 1 \in DOMAIN buf THEN buf[off + 1] ELSE 0

\* *(ushort *)(buf + off)
U16(buf, off) == At(buf, off) + 256 * At(buf, off + 1)

\* *(uint *)(buf + off)
U32(buf, off) == Uint(U16(buf, off + 2), U16(buf, off))


\* memcpy(dst + off, src, n)
MemCpy(dst, off, src, n) ==
    AsSeq([i \in DOMAIN dst |->
              IF i > off /\ i <= off + n THEN src[i - off] ELSE dst[i]])

(***************************************************************************)
(* CRC engine.                                                             *)
(***************************************************************************)
RECURSIVE CrcEntry(_, _)
CrcEntry(c, j) ==
    IF j = 0 THEN c
    ELSE CrcEntry(IF c >= 32768 THEN Xor16(c * 2, CrcPolynomial)
                                ELSE (c * 2) % 65536, j - 1)

\* the table init_crc_table fills: entry i is aus_CrcTable[i + 1]
aus_CrcTable == AsSeq([i \in 1..256 |-> CrcEntry((i - 1) * 256, 8)])

\* a round that indexes the table with the low byte of the register
CrcRoundLowByte(byte, crc) ==
    Xor16(aus_CrcTable[(Xor16(byte, crc) % 256) + 1], crc * 256)

\* one round of cmd_crc's loop: crc = table[(byte ^ (crc >> 8)) & 0xFF] ^ (crc << 8)
CrcRound(byte, crc) ==
    Xor16(aus_CrcTable[(Xor16(byte, crc \div 256) % 256) + 1], crc * 256)

\* the loop of cmd_crc from offset off, len bytes left (each round's value is
\* computed before the next round starts)
RECURSIVE CrcLoop(_, _, _, _)
CrcLoop(buf, off, len, crc) ==
    IF len = 0 THEN crc
    ELSE LET next == CrcRound(At(buf, off), crc)
         IN  IF next >= 0 THEN CrcLoop(buf, off + 1, len - 1, next) ELSE 0

\* cmd_crc(buf + off, len)
cmd_crc(buf, off, len) == CrcLoop(buf, off, len, 0)

(***************************************************************************)
(* Frame codec.                                                            *)
(***************************************************************************)
PutU16(buf, off, v) ==
    [buf EXCEPT ![off + 1] = v % 256, ![off + 2] = (v \div 256) % 256]

\* a cmd_build that sends only the bytes it filled: header and payload
cmd_build_variable_length(cmd_id, data) ==
    LET b0 == [Zeros(PacketSize) EXCEPT ![1] = 255, ![2] = 254]
        b1 == PutU16(b0, 14, cmd_id)
        b2 == IF Len(data) > 0 THEN MemCpy(b1, HeaderLen, data, Len(data)) ELSE b1
        b3 == PutU16(b2, 4, MinLenField + Len(data))
        crc == cmd_crc(b3, 4, MinLenField + Len(data) + 2)
    IN  [buf |-> PutU16(b3, 2, crc), total_len |-> HeaderLen + Len(data)]

\* cmd_build(cmd_id, data, data_len, out_buf, &out_total_len), data_len <= 46
cmd_build(cmd_id, data) ==
    LET b0 == [Zeros(PacketSize) EXCEPT ![1] = 255, ![2] = 254]
        b1 == PutU16(b0, 14, cmd_id)
        b2 == IF Len(data) > 0 THEN MemCpy(b1, HeaderLen, data, Len(data)) ELSE b1
        payload_len_field == MinLenField + Len(data)
        b3 == PutU16(b2, 4, payload_len_field)
        crc == cmd_crc(b3, 4, payload_len_field + 2)
    IN  [buf |-> PutU16(b3, 2, crc), total_len |-> PacketSize]

\* a parse_rsp whose bounds check refuses a payload that ends exactly at the
\* end of the packet
parse_rsp_refusing_full_packet(rsp_buf, total_rsp_len) ==
    IF total_rsp_len = 0
    THEN [data |-> << >>, data_len |-> 0, cmd_id |-> ParseErrId]
    ELSE
    LET payload_len_field == U16(rsp_buf, 4)
        data_len == payload_len_field - MinLenField
    IN  IF payload_len_field <= MinLenField
           \/ HeaderLen + data_len >= total_rsp_len
           \/ HeaderLen + data_len >= PacketSize
        THEN [data |-> << >>, data_len |-> 0, cmd_id |-> U16(rsp_buf, 14)]
        ELSE [data |-> AsSeq([i \in 1..data_len |->
                                At(rsp_buf, HeaderLen + i - 1)]),
              data_len |-> data_len, cmd_id |-> U16(rsp_buf, 14)]

\* a parse_rsp that reports a frame whose CRC does not match as an error
parse_rsp_discarding_bad_crc(rsp_buf, total_rsp_len) ==
    IF total_rsp_len = 0
       \/ (U16(rsp_buf, 4) >= MinLenField
           /\ cmd_crc(rsp_buf, 4, U16(rsp_buf, 4) + 2) # U16(rsp_buf, 2))
    THEN [data |-> << >>, data_len |-> 0, cmd_id |-> ParseErrId]
    ELSE
    LET payload_len_field == U16(rsp_buf, 4)
        data_len == payload_len_field - MinLenField
    IN  IF payload_len_field <= MinLenField
           \/ HeaderLen + data_len > total_rsp_len
           \/ HeaderLen + data_len > PacketSize
        THEN [data |-> << >>, data_len |-> 0, cmd_id |-> U16(rsp_buf, 14)]
        ELSE [data |-> AsSeq([i \in 1..data_len |->
                                At(rsp_buf, HeaderLen + i - 1)]),
              data_len |-> data_len, cmd_id |-> U16(rsp_buf, 14)]

\* parse_rsp(rsp_buf, total_rsp_len, out_data, &out_data_len, &out_cmd_id):
\* the three outputs.  (The CRC comparison only prints a diagnostic and is
\* modelled apart, in parse_rsp_crc_mismatch.)
parse_rsp(rsp_buf, total_rsp_len) ==
    IF total_rsp_len = 0
    THEN [data |-> << >>, data_len |-> 0, cmd_id |-> ParseErrId]
    ELSE
    LET payload_len_field == U16(rsp_buf, 4)
        cmd_id == U16(rsp_buf, 14)
        data_len == payload_len_field - MinLenField
    IN  IF payload_len_field < MinLenField
        THEN [data |-> << >>, data_len |-> 0, cmd_id |-> cmd_id]
        ELSE IF data_len > 0
             THEN IF HeaderLen + data_len > total_rsp_len
                     \/ HeaderLen + data_len > PacketSize
                  THEN [data |-> << >>, data_len |-> 0, cmd_id |-> cmd_id]
                  ELSE [data |-> AsSeq([i \in 1..data_len |->
                                          At(rsp_buf, HeaderLen + i - 1)]),
                        data_len |-> data_len, cmd_id |-> cmd_id]
             ELSE [data |-> << >>, data_len |-> 0, cmd_id |-> cmd_id]

\* parse_rsp's "CRC mismatch" diagnostic: printed when the length field is at
\* least 12 and the CRC over [4, 4 + length + 2) differs from bytes [2,4)
parse_rsp_crc_mismatch(rsp_buf, total_rsp_len) ==
    /\ total_rsp_len # 0
    /\ U16(rsp_buf, 4) >= MinLenField
    /\ cmd_crc(rsp_buf, 4, U16(rsp_buf, 4) + 2) # U16(rsp_buf, 2)

(***************************************************************************)
(* Frames the simulated device sends.  A frame is 64 bytes: magic [0,2),   *)
(* CRC [2,4), declared length [4,6), timestamp [6,10), id [14,16),         *)
(* payload from 18.                                                        *)
(***************************************************************************)
DeviceFrame(magic1, id, ts, payload) ==
    LET b0 == [Zeros(PacketSize) EXCEPT ![1] = 255, ![2] = magic1]
        b1 == PutU16(PutU16(b0, 6, ts), 14, id)
        b2 == IF Len(payload) > 0
              THEN MemCpy(b1, HeaderLen, payload, Len(payload)) ELSE b1
        b3 == PutU16(b2, 4, MinLenField + Len(payload))
    IN  PutU16(b3, 2, cmd_crc(b3, 4, MinLenField + Len(payload) + 2))

McuMagic == 254
ImuMagic == 252

\* the status bytes the device answers with: it echoes the request's data byte
Statuses == {0, 1}
\* event ids the device uses
EventIds == {1, 65535}

\* the frames, built once
ResponseFrames == [st \in Statuses |-> DeviceFrame(McuMagic, 0, 0, <<st>>)]
EventFrames == [id \in EventIds |-> DeviceFrame(McuMagic, id, 7, <<id % 256>>)]
\* the reply to a request: id 0, payload = one status byte
ResponseFrame(status) == ResponseFrames[status]
\* a reply whose payload is empty
EmptyResponseFrame == DeviceFrame(McuMagic, 0, 0, << >>)
\* an unsolicited event
EventFrame(id) == EventFrames[id]
\* one sensor sample (12 payload bytes)
SampleFrame == DeviceFrame(ImuMagic, 1, 9, <<170, 187, 204, 221, 238, 255, 0, 17, 34, 51, 68, 85>>)
\* the frames cmd_build produces for set_imu(false) and set_imu(true)
SetImuFrames == [d \in {0, 1} |-> cmd_build(SetImuCmdId, <<d>>)]

(***************************************************************************)
(* State.                                                                  *)
(***************************************************************************)
VARIABLES
    \* globals of viture_connection.c
    crc_table_initialized, g_mcu_dev, g_imu_dev, mcu_hid_path, imu_hid_path,
    lock_cmd, signal_cond_cmd, g_mcu_rsp, mcu_read_tid, imu_read_tid,
    mcu_thread_flag, imu_thread_flag, barrier_mcu, barrier_imu,
    ext_mcu_event_callback, ext_imu_data_callback,
    \* the two reader threads: where each is
    mcu_pc, imu_pc,
    \* the lifecycle (application main) thread: where it is, which API call it
    \* is in, and what the last viture_driver_init returned
    main_pc, main_op, main_ret,
    \* the application threads calling set_imu: position, dev argument of
    \* cmd_exec, data byte sent, cmd_wait's return code, value returned by the
    \* last call and the exit path it took
    cpc, cdev, cdata, cwret, cresult, ckind,
    \* HID library and device: library initialised, open handle of each
    \* channel (0: none), next handle, frames queued for each reader, requests
    \* the device has received and not yet answered
    hid_lib, mcu_open, imu_open, hid_next, mcu_rx, imu_rx, dev_inbox,
    \* callback invocations, in order
    events, samples,
    \* how many calls / frames / lifecycle calls happened (bounds the model)
    ncalls, nevents, nsamples, nlife,
    \* history: reader threads that were never joined; per caller, the status
    \* bytes of the response frames the control reader received while the
    \* caller's call was between its write and the end of its wait (and released
    \* before the wait timed out); the status
    \* bytes of all response frames copied into g_mcu_rsp
    leaked, cseen, rx_statuses,
    \* history: the registration calls made, in order
    registrations,
    \* the static functions called on their own: the arguments given to
    \* cmd_build (and, as bytes, to cmd_crc), what cmd_build left in out_buf and
    \* *out_total_len, what parse_rsp returned for that buffer, what cmd_exec
    \* returned and handed back for it as a response, what cmd_crc returned
    arg_cmd_id, arg_data, out_buf, out_total_len, parsed, exec_out, crc_out,
    \* the application's sample handler: its statics (use_viture_imu, the
    \* angles, the initial offsets), each float as its four bytes in memory
    imu_app,
    \* history: the frames the device has sent on each channel, in order
    sent_mcu, sent_imu,
    \* how many entries of aus_CrcTable have been written (the index i of
    \* init_crc_table's loop while it runs); the others hold zero
    aus_filled

progVars == <<crc_table_initialized, g_mcu_dev, g_imu_dev, mcu_hid_path,
              imu_hid_path, mcu_read_tid, imu_read_tid, barrier_mcu, barrier_imu>>
cbVars == <<ext_mcu_event_callback, ext_imu_data_callback, registrations>>
syncVars == <<lock_cmd, signal_cond_cmd>>
mainVars == <<main_pc, main_op, main_ret, nlife>>
callerVars == <<cpc, cdev, cdata, cwret, cresult, ckind, ncalls, cseen>>
hidVars == <<hid_lib, mcu_open, imu_open, hid_next>>
imuVars == <<imu_pc, imu_thread_flag, imu_rx, samples, nsamples>>
pureVars == <<arg_cmd_id, arg_data, out_buf, out_total_len, parsed, exec_out,
              crc_out>>
appVars == <<imu_app, sent_mcu, sent_imu, aus_filled>>
vars == <<progVars, cbVars, pureVars, appVars, syncVars, mainVars, callerVars, hidVars, imuVars,
          g_mcu_rsp, mcu_thread_flag, mcu_pc, mcu_rx, dev_inbox, events,
          nevents, leaked, rx_statuses>>

Callers == 1..NumCallers
\* the application threads that issue commands while the lifecycle runs
LifeCallers == {1}
\* owner of lock_cmd when the control reader holds it
McuOwner == NumCallers + 1

\* static pthread_mutex_t lock_cmd; static pthread_cond_t signal_cond_cmd;
MutexOf(valid, owner) == [valid |-> valid, owner |-> owner]
CondOf(valid, waiters) == [valid |-> valid, waiters |-> waiters]
\* static pthread_barrier_t barrier_mcu, barrier_imu: initialised?, arrivals
BarrierOf(valid, arrived) == [valid |-> valid, arrived |-> arrived]
\* a barrier that lets its first arrival through
BarrierCountOfOne == 2 - 1
\* the count given to pthread_barrier_init
BarrierCount == 2

\* one call of viture_set_mcu_event_callback ("event") or
\* viture_set_imu_data_callback ("sample")
Registration(which, callback) == [which |-> which, callback |-> callback]

\* float 0.0f in memory
FloatZero == <<0, 0, 0, 0>>
\* the statics of the sample handler as the program starts
AppStatics(use) ==
    [use_viture_imu |-> use, initial_offsets_set |-> FALSE,
     initial_roll_offset |-> FloatZero, initial_pitch_offset |-> FloatZero,
     initial_yaw_offset |-> FloatZero,
     viture_roll |-> FloatZero, viture_pitch |-> FloatZero,
     viture_yaw |-> FloatZero]
\* static unsigned short aus_CrcTable[256]
CrcTableSize == 256
\* the handler has not run, the device has sent nothing, and the checksum
\* table is filled if init_crc_table has run
AppIdle ==
    /\ imu_app = AppStatics(FALSE)
    /\ sent_mcu = << >> /\ sent_imu = << >>
    /\ aus_filled = IF crc_table_initialized THEN CrcTableSize ELSE 0

\* "not called yet"
NotCalled == [called |-> FALSE]
\* no static function has been called on its own
PureIdle ==
    /\ arg_cmd_id = 0 /\ arg_data = << >>
    /\ out_buf = << >> /\ out_total_len = 0
    /\ parsed = NotCalled /\ exec_out = NotCalled /\ crc_out = << >>

(***************************************************************************)
(* Init: the process image before any API call (all statics zero).         *)
(***************************************************************************)
Init ==
    /\ crc_table_initialized = FALSE
    /\ g_mcu_dev = NULL /\ g_imu_dev = NULL
    /\ mcu_hid_path = FALSE /\ imu_hid_path = FALSE
    /\ lock_cmd = MutexOf(FALSE, 0)
    /\ signal_cond_cmd = CondOf(FALSE, {})
    /\ g_mcu_rsp = Zeros(RspBufSize)
    /\ mcu_read_tid = 0 /\ imu_read_tid = 0
    /\ mcu_thread_flag = FALSE /\ imu_thread_flag = FALSE
    /\ barrier_mcu = BarrierOf(FALSE, 0) /\ barrier_imu = BarrierOf(FALSE, 0)
    /\ ext_mcu_event_callback = NULL /\ ext_imu_data_callback = NULL
    /\ registrations = << >>
    /\ AppIdle
    /\ mcu_pc = "none" /\ imu_pc = "none"
    /\ main_pc = "idle" /\ main_op = "none" /\ main_ret = FALSE
    /\ cpc = [c \in Callers |-> "idle"]
    /\ cdev = [c \in Callers |-> NULL]
    /\ cdata = [c \in Callers |-> 0]
    /\ cwret = [c \in Callers |-> 0]
    /\ cresult = [c \in Callers |-> Uint(0, 0)]
    /\ ckind = [c \in Callers |-> "none"]
    /\ hid_lib = FALSE /\ mcu_open = 0 /\ imu_open = 0 /\ hid_next = 1
    /\ mcu_rx = << >> /\ imu_rx = << >> /\ dev_inbox = << >>
    /\ events = << >> /\ samples = << >>
    /\ ncalls = [c \in Callers |-> 0]
    /\ nevents = 0 /\ nsamples = 0 /\ nlife = 0
    /\ leaked = 0
    /\ cseen = [c \in Callers |-> {}]
    /\ rx_statuses = {}
    /\ PureIdle

(***************************************************************************)
(* InitRunning: the state right after one successful viture_driver_init    *)
(* on a fresh process, with both callbacks registered (what test_viture.c  *)
(* does before its first set_imu): both handles open, both reader threads  *)
(* past their barrier and at the top of their loop.                        *)
(***************************************************************************)
InitRunning ==
    /\ crc_table_initialized = TRUE
    /\ g_mcu_dev = 1 /\ g_imu_dev = 2
    /\ mcu_hid_path = TRUE /\ imu_hid_path = TRUE
    /\ lock_cmd = MutexOf(TRUE, 0)
    /\ signal_cond_cmd = CondOf(TRUE, {})
    /\ g_mcu_rsp = Zeros(RspBufSize)
    /\ mcu_read_tid = 1 /\ imu_read_tid = 1
    /\ mcu_thread_flag = TRUE /\ imu_thread_flag = TRUE
    /\ barrier_mcu = BarrierOf(TRUE, BarrierCount)
    /\ barrier_imu = BarrierOf(TRUE, BarrierCount)
    /\ ext_mcu_event_callback = 1 /\ ext_imu_data_callback = 1
    /\ registrations = <<Registration("event", 1), Registration("sample", 1)>>
    /\ AppIdle
    /\ mcu_pc = "loop" /\ imu_pc = "loop"
    /\ main_pc = "idle" /\ main_op = "init" /\ main_ret = TRUE
    /\ cpc = [c \in Callers |-> "idle"]
    /\ cdev = [c \in Callers |-> NULL]
    /\ cdata = [c \in Callers |-> 0]
    /\ cwret = [c \in Callers |-> 0]
    /\ cresult = [c \in Callers |-> Uint(0, 0)]
    /\ ckind = [c \in Callers |-> "none"]
    /\ hid_lib = TRUE /\ mcu_open = 1 /\ imu_open = 2 /\ hid_next = 3
    /\ mcu_rx = << >> /\ imu_rx = << >> /\ dev_inbox = << >>
    /\ events = << >> /\ samples = << >>
    /\ ncalls = [c \in Callers |-> 0]
    /\ nevents = 0 /\ nsamples = 0 /\ nlife = 1
    /\ leaked = 0
    /\ cseen = [c \in Callers |-> {}]
    /\ rx_statuses = {}
    /\ PureIdle

(***************************************************************************)
(* set_imu -> native_mcu_exec -> cmd_exec, one application thread c.       *)
(***************************************************************************)
\* a call is in flight: its request frame is written and it has not returned
InFlight(c) == cpc[c] \in {"wait_lock", "wait_enter", "blocked", "reacquire", "after_wait"}
\* the call is between its write and the end of its wait
InWaitWindow(c) == cpc[c] \in {"wait_lock", "wait_enter", "blocked"}

\* the timeout value cut to one byte
TimeoutResultAsByte == Uint(0, 254)

\* what cmd_exec returns for an uninitialised device, a failed write and a
\* timed-out wait
NotInitResult == ErrNotInit
WriteFailResult == ErrWrite
TimeoutResult == ErrTimeout

\* cmd_exec returns value (by the exit path kind); its locals are gone
Return(c, value, kind) ==
    /\ cresult' = [cresult EXCEPT ![c] = value]
    /\ ckind' = [ckind EXCEPT ![c] = kind]
    /\ cpc' = [cpc EXCEPT ![c] = "idle"]
    /\ cdev' = [cdev EXCEPT ![c] = NULL]
    /\ cwret' = [cwret EXCEPT ![c] = 0]

\* a set_imu and cmd_exec without their NULL checks
set_imu_without_null_check(c, enable) ==
    /\ cpc[c] = "idle" /\ ncalls[c] < MaxCalls
    /\ ncalls' = [ncalls EXCEPT ![c] = @ + 1]
    /\ cdata' = [cdata EXCEPT ![c] = IF enable THEN 1 ELSE 0]
    /\ cseen' = [cseen EXCEPT ![c] = {}]
    /\ cdev' = [cdev EXCEPT ![c] = g_mcu_dev]
    /\ cpc' = [cpc EXCEPT ![c] = "write"]
    /\ UNCHANGED <<cresult, ckind, cwret>>
    /\ UNCHANGED <<progVars, cbVars, pureVars, appVars, syncVars, mainVars, hidVars, imuVars,
                   g_mcu_rsp, mcu_thread_flag, mcu_pc, mcu_rx, dev_inbox,
                   events, nevents, leaked, rx_statuses>>

\* set_imu(enable): the NULL checks of set_imu and cmd_exec, then cmd_build.
\* The two reads of g_mcu_dev (set_imu's check, native_mcu_exec's argument)
\* are taken as one read, at the moment of the second.
set_imu(c, enable) ==
    /\ cpc[c] = "idle" /\ ncalls[c] < MaxCalls
    /\ ncalls' = [ncalls EXCEPT ![c] = @ + 1]
    /\ cdata' = [cdata EXCEPT ![c] = IF enable THEN 1 ELSE 0]
    /\ cseen' = [cseen EXCEPT ![c] = {}]
    /\ IF g_mcu_dev = NULL
       THEN Return(c, NotInitResult, "notinit")
       ELSE /\ cdev' = [cdev EXCEPT ![c] = g_mcu_dev]
            /\ cpc' = [cpc EXCEPT ![c] = "write"]
            /\ UNCHANGED <<cresult, ckind, cwret>>
    /\ UNCHANGED <<progVars, cbVars, pureVars, appVars, syncVars, mainVars, hidVars, imuVars,
                   g_mcu_rsp, mcu_thread_flag, mcu_pc, mcu_rx, dev_inbox,
                   events, nevents, leaked, rx_statuses>>

\* the frame cmd_exec hands to hid_write
RequestFrame(c) == SetImuFrames[cdata[c]]

\* hid_write(dev, cmd_buf, 64) returns 64: the device has the request.  On a
\* handle that was closed meanwhile the bytes go nowhere.
cmd_exec_write_ok(c) ==
    /\ cpc[c] = "write"
    /\ dev_inbox' = IF cdev[c] = mcu_open
                    THEN Append(dev_inbox, SubSeq(RequestFrame(c).buf, 1,
                                                  RequestFrame(c).total_len))
                    ELSE dev_inbox
    /\ cpc' = [cpc EXCEPT ![c] = "wait_lock"]
    /\ UNCHANGED <<progVars, cbVars, pureVars, appVars, syncVars, mainVars, hidVars, imuVars, cdev,
                   cdata, cwret, cresult, ckind, ncalls, cseen, g_mcu_rsp,
                   mcu_thread_flag, mcu_pc, mcu_rx, events, nevents, leaked,
                   rx_statuses>>

\* hid_write fails (returns -1 or a short count): cmd_exec returns at once
cmd_exec_write_fail(c) ==
    /\ cpc[c] = "write"
    /\ Return(c, WriteFailResult, "write")
    /\ UNCHANGED <<progVars, cbVars, pureVars, appVars, syncVars, mainVars, hidVars, imuVars,
                   cdata, ncalls, cseen, g_mcu_rsp, mcu_thread_flag,
                   mcu_pc, mcu_rx, dev_inbox, events, nevents, leaked,
                   rx_statuses>>

\* cmd_wait: pthread_mutex_lock(&lock_cmd).  On a mutex that is not
\* initialised (destroyed by native_mcu_deinit) the call comes back with an
\* error the code ignores, owning nothing.
cmd_wait_lock(c) ==
    /\ cpc[c] = "wait_lock"
    /\ IF lock_cmd.valid
       THEN /\ lock_cmd.owner = 0
            /\ lock_cmd' = [lock_cmd EXCEPT !.owner = c]
       ELSE UNCHANGED lock_cmd
    /\ cpc' = [cpc EXCEPT ![c] = "wait_enter"]
    /\ UNCHANGED <<progVars, cbVars, pureVars, appVars, signal_cond_cmd, mainVars, hidVars, imuVars,
                   cdev, cdata, cwret, cresult, ckind, ncalls, cseen, g_mcu_rsp,
                   mcu_thread_flag, mcu_pc, mcu_rx, dev_inbox, events, nevents,
                   leaked, rx_statuses>>

\* cmd_wait: pthread_cond_timedwait releases the mutex and blocks
cmd_wait_timedwait(c) ==
    /\ cpc[c] = "wait_enter"
    /\ signal_cond_cmd.valid /\ lock_cmd.valid /\ lock_cmd.owner = c
    /\ lock_cmd' = [lock_cmd EXCEPT !.owner = 0]
    /\ signal_cond_cmd' = [signal_cond_cmd EXCEPT !.waiters = @ \cup {c}]
    /\ cpc' = [cpc EXCEPT ![c] = "blocked"]
    /\ UNCHANGED <<progVars, cbVars, pureVars, appVars, mainVars, hidVars, imuVars, cdev, cdata,
                   cwret, cresult, ckind, ncalls, cseen, g_mcu_rsp,
                   mcu_thread_flag, mcu_pc, mcu_rx, dev_inbox, events, nevents,
                   leaked, rx_statuses>>

\* the return codes a wait on destroyed objects can come back with: 0,
\* ETIMEDOUT or another error (EINVAL = 22)
DestroyedWaitCodes == {0, ETIMEDOUT, 22}

\* pthread_cond_timedwait on a condition variable or mutex that
\* native_mcu_deinit has destroyed (undefined by POSIX): it returns with any
\* of the codes above, the caller owning no mutex
cmd_wait_destroyed(c) ==
    /\ \/ /\ cpc[c] = "wait_enter"
          /\ ~(signal_cond_cmd.valid /\ lock_cmd.valid /\ lock_cmd.owner = c)
       \/ /\ cpc[c] = "blocked"
          /\ ~(signal_cond_cmd.valid /\ lock_cmd.valid)
    /\ \E code \in DestroyedWaitCodes : cwret' = [cwret EXCEPT ![c] = code]
    /\ signal_cond_cmd' = [signal_cond_cmd EXCEPT !.waiters = @ \ {c}]
    /\ lock_cmd' = IF lock_cmd.owner = c THEN [lock_cmd EXCEPT !.owner = 0]
                   ELSE lock_cmd
    /\ cpc' = [cpc EXCEPT ![c] = "after_wait"]
    /\ UNCHANGED <<progVars, cbVars, pureVars, appVars, mainVars, hidVars, imuVars, cdev, cdata,
                   cresult, ckind, ncalls, cseen, g_mcu_rsp, mcu_thread_flag,
                   mcu_pc, mcu_rx, dev_inbox, events, nevents, leaked,
                   rx_statuses>>

\* a wait without a timeout (pthread_cond_wait): no timeout ever expires
cmd_wait_untimed(c) ==
    /\ cpc[c] = "blocked"
    /\ FALSE
    /\ UNCHANGED vars

\* the 2-second timeout of pthread_cond_timedwait expires.  (History: a
\* response the reader has received but not yet released when the timeout
\* expires came too late, and is not counted as received during the call.)
cmd_wait_timeout(c) ==
    /\ cpc[c] = "blocked"
    /\ signal_cond_cmd.valid /\ lock_cmd.valid
    /\ signal_cond_cmd' = [signal_cond_cmd EXCEPT !.waiters = @ \ {c}]
    /\ cwret' = [cwret EXCEPT ![c] = ETIMEDOUT]
    /\ cpc' = [cpc EXCEPT ![c] = "reacquire"]
    /\ cseen' = IF mcu_pc \in {"rel_lock", "rel_signal"}
                THEN [cseen EXCEPT ![c] = {}] ELSE cseen
    /\ UNCHANGED <<progVars, cbVars, pureVars, appVars, lock_cmd, mainVars, hidVars, imuVars, cdev,
                   cdata, cresult, ckind, ncalls, g_mcu_rsp,
                   mcu_thread_flag, mcu_pc, mcu_rx, dev_inbox, events, nevents,
                   leaked, rx_statuses>>

\* a cmd_wait that returns without its pthread_mutex_unlock
cmd_wait_return_keeping_lock(c) ==
    /\ cpc[c] = "reacquire"
    /\ lock_cmd.valid => lock_cmd.owner = 0
    /\ lock_cmd' = IF lock_cmd.valid THEN [lock_cmd EXCEPT !.owner = c] ELSE lock_cmd
    /\ cpc' = [cpc EXCEPT ![c] = "after_wait"]
    /\ UNCHANGED <<progVars, cbVars, pureVars, appVars, signal_cond_cmd, mainVars,
                   hidVars, imuVars, cdev, cdata, cwret, cresult, ckind, ncalls,
                   cseen, g_mcu_rsp, mcu_thread_flag, mcu_pc, mcu_rx, dev_inbox,
                   events, nevents, leaked, rx_statuses>>

\* pthread_cond_timedwait re-acquires the mutex before it returns, and
\* cmd_wait unlocks it at once (taken as one step: nothing happens between)
cmd_wait_return(c) ==
    /\ cpc[c] = "reacquire"
    /\ lock_cmd.valid => lock_cmd.owner = 0
    /\ cpc' = [cpc EXCEPT ![c] = "after_wait"]
    /\ UNCHANGED <<progVars, cbVars, pureVars, appVars, syncVars, mainVars, hidVars, imuVars, cdev,
                   cdata, cwret, cresult, ckind, ncalls, cseen, g_mcu_rsp,
                   mcu_thread_flag, mcu_pc, mcu_rx, dev_inbox, events, nevents,
                   leaked, rx_statuses>>

\* a cmd_exec that looks into the response slot after a timeout as well (what
\* the decompiled SDK did, see the comment at the timeout exit)
cmd_exec_result_checking_slot(wret, slot) ==
    LET p == parse_rsp(slot, RspBufSize)
    IN  IF p.data_len > 0
        THEN [value |-> Uint(0, p.data[1]),
              kind |-> IF wret = ETIMEDOUT THEN "timeout" ELSE "status"]
        ELSE [value |-> ErrTimeout,
              kind |-> IF wret = ETIMEDOUT THEN "timeout" ELSE "empty"]

\* the value cmd_exec returns once cmd_wait has returned wret, given the
\* response slot (rsp_data and rsp_data_len are NULL in native_mcu_exec)
cmd_exec_result(wret, slot) ==
    IF wret = ETIMEDOUT THEN [value |-> TimeoutResult, kind |-> "timeout"]
    ELSE LET p == parse_rsp(slot, RspBufSize)
         IN  IF p.data_len > 0
             THEN [value |-> Uint(0, p.data[1]), kind |-> "status"]
             ELSE [value |-> ErrTimeout, kind |-> "empty"]

\* a cmd_exec that hands back the whole payload, status byte included
cmd_exec_outputs_with_status(slot, want_body, calloc_ok) ==
    LET p == parse_rsp(slot, RspBufSize)
        r == cmd_exec_result(0, slot)
    IN  [called |-> TRUE, want_body |-> want_body, calloc_ok |-> calloc_ok,
         value |-> r.value, kind |-> r.kind,
         written |-> want_body,
         rsp_null |-> ~(want_body /\ p.data_len > 1 /\ calloc_ok),
         rsp_data |-> IF want_body /\ p.data_len > 1 /\ calloc_ok
                      THEN p.data ELSE << >>,
         rsp_data_len |-> IF want_body /\ p.data_len > 1 /\ calloc_ok
                          THEN p.data_len ELSE 0]

\* cmd_exec once a response has woken it (cmd_wait returned 0): what it
\* returns and what it stores through rsp_data and rsp_data_len.  want_body:
\* both pointers are non-NULL; calloc_ok: calloc returned memory.
\* written: the two outputs were assigned; rsp_null: *rsp_data is NULL.
cmd_exec_outputs(slot, want_body, calloc_ok) ==
    LET p == parse_rsp(slot, RspBufSize)
        r == cmd_exec_result(0, slot)
    IN  [called |-> TRUE, want_body |-> want_body, calloc_ok |-> calloc_ok,
         value |-> r.value, kind |-> r.kind,
         written |-> want_body,
         rsp_null |-> ~(want_body /\ p.data_len > 1 /\ calloc_ok),
         rsp_data |-> IF want_body /\ p.data_len > 1 /\ calloc_ok
                      THEN SubSeq(p.data, 2, p.data_len) ELSE << >>,
         rsp_data_len |-> IF want_body /\ p.data_len > 1 /\ calloc_ok
                          THEN p.data_len - 1 ELSE 0]

\* cmd_exec after cmd_wait: timeout, or parse g_mcu_rsp and return
cmd_exec_finish(c) ==
    /\ cpc[c] = "after_wait"
    /\ LET r == cmd_exec_result(cwret[c], g_mcu_rsp)
       IN  Return(c, r.value, r.kind)
    /\ UNCHANGED <<progVars, cbVars, pureVars, appVars, syncVars, mainVars, hidVars, imuVars,
                   cdata, ncalls, cseen, g_mcu_rsp, mcu_thread_flag,
                   mcu_pc, mcu_rx, dev_inbox, events, nevents, leaked,
                   rx_statuses>>

(***************************************************************************)
(* mcu_thread: the control-channel reader.                                 *)
(***************************************************************************)
\* pthread_barrier_wait(&barrier_mcu): the thread arrives
mcu_thread_arrive ==
    /\ mcu_pc = "start"
    /\ barrier_mcu' = [barrier_mcu EXCEPT !.arrived = @ + 1]
    /\ mcu_pc' = "in_barrier"
    /\ UNCHANGED <<crc_table_initialized, g_mcu_dev, g_imu_dev, mcu_hid_path,
                   imu_hid_path, mcu_read_tid, imu_read_tid, barrier_imu,
                   cbVars, pureVars, appVars, syncVars, mainVars, callerVars, hidVars, imuVars,
                   g_mcu_rsp, mcu_thread_flag, mcu_rx, dev_inbox, events,
                   nevents, leaked, rx_statuses>>

\* pthread_barrier_wait returns once BarrierCount threads have arrived
mcu_thread_started ==
    /\ mcu_pc = "in_barrier"
    /\ barrier_mcu.arrived >= BarrierCount
    /\ mcu_pc' = "loop"
    /\ UNCHANGED <<progVars, cbVars, pureVars, appVars, syncVars, mainVars, callerVars, hidVars,
                   imuVars, g_mcu_rsp, mcu_thread_flag, mcu_rx, dev_inbox,
                   events, nevents, leaked, rx_statuses>>

\* a loop that does not look at its flag (while (1))
mcu_thread_loop_unconditional ==
    /\ mcu_pc = "loop"
    /\ mcu_pc' = "read"
    /\ UNCHANGED <<progVars, cbVars, pureVars, appVars, syncVars, mainVars, callerVars, hidVars,
                   imuVars, g_mcu_rsp, mcu_thread_flag, mcu_rx, dev_inbox,
                   events, nevents, leaked, rx_statuses>>

\* while (mcu_thread_flag): enter hid_read_timeout, or leave the loop
mcu_thread_loop ==
    /\ mcu_pc = "loop"
    /\ mcu_pc' = IF mcu_thread_flag THEN "read" ELSE "exiting"
    /\ UNCHANGED <<progVars, cbVars, pureVars, appVars, syncVars, mainVars, callerVars, hidVars,
                   imuVars, g_mcu_rsp, mcu_thread_flag, mcu_rx, dev_inbox,
                   events, nevents, leaked, rx_statuses>>

\* a read error that stops both loops
mcu_thread_read_error_stopping_both ==
    /\ mcu_pc = "read"
    /\ mcu_thread_flag' = FALSE
    /\ imu_thread_flag' = FALSE
    /\ mcu_pc' = "exiting"
    /\ UNCHANGED <<progVars, cbVars, pureVars, appVars, syncVars, mainVars, callerVars,
                   hidVars, imu_pc, imu_rx, samples, nsamples, g_mcu_rsp,
                   mcu_rx, dev_inbox, events, nevents, leaked, rx_statuses>>

\* hid_read_timeout returns a negative value: the loop clears its flag and
\* breaks
mcu_thread_read_error ==
    /\ mcu_pc = "read"
    /\ mcu_thread_flag' = FALSE
    /\ mcu_pc' = "exiting"
    /\ UNCHANGED <<progVars, cbVars, pureVars, appVars, syncVars, mainVars, callerVars, hidVars,
                   imuVars, g_mcu_rsp, mcu_rx, dev_inbox, events, nevents,
                   leaked, rx_statuses>>

\* hid_read_timeout returns 0 after its 1-second timeout: continue
mcu_thread_read_timeout ==
    /\ mcu_pc = "read"
    /\ mcu_rx = << >>
    /\ mcu_pc' = "loop"
    /\ UNCHANGED <<progVars, cbVars, pureVars, appVars, syncVars, mainVars, callerVars, hidVars,
                   imuVars, g_mcu_rsp, mcu_thread_flag, mcu_rx, dev_inbox,
                   events, nevents, leaked, rx_statuses>>

\* a classification that takes every frame with the control marker for an
\* event, the replies (id 0) included
mcu_classify_response_as_event(pkt, res) ==
    IF At(pkt, 0) = 255 /\ At(pkt, 1) = McuMagic
    THEN IF parse_rsp(pkt, res).cmd_id # ParseErrId THEN "event" ELSE "dropped"
    ELSE "badmagic"

\* a classification that looks at the first marker byte only
mcu_classify_first_byte_only(pkt, res) ==
    IF At(pkt, 0) = 255
    THEN IF U16(pkt, 14) = 0 THEN "response"
         ELSE IF parse_rsp(pkt, res).cmd_id # ParseErrId THEN "event"
              ELSE "dropped"
    ELSE "badmagic"

\* a classification that takes every frame with the control marker for a
\* reply, whatever its id field
mcu_classify_every_frame_as_response(pkt, res) ==
    IF At(pkt, 0) = 255 /\ At(pkt, 1) = McuMagic THEN "response" ELSE "badmagic"

\* how mcu_thread classifies a packet of res bytes: "response" (id field 0),
\* "event" (delivered), "dropped" (parse_rsp reported 0xFFFF) or "badmagic"
mcu_classify(pkt, res) ==
    IF At(pkt, 0) = 255 /\ At(pkt, 1) = McuMagic
    THEN IF U16(pkt, 14) = 0 THEN "response"
         ELSE IF parse_rsp(pkt, res).cmd_id # ParseErrId THEN "event"
              ELSE "dropped"
    ELSE "badmagic"

\* the record event_update passes to the registered callback
EventOf(cb, pkt, res) ==
    LET p == parse_rsp(pkt, res)
    IN  [cb |-> cb, id |-> p.cmd_id, data |-> p.data, len |-> p.data_len,
         ts |-> U32(pkt, 6)]

\* an event_update whose record lands before the earlier ones
event_update_prepending(log, cb, pkt, res) ==
    IF cb # NULL THEN <<EventOf(cb, pkt, res)>> \o log ELSE log

\* event_update: invoke the callback if one is registered
event_update(log, cb, pkt, res) ==
    IF cb # NULL THEN Append(log, EventOf(cb, pkt, res)) ELSE log

\* hid_read_timeout returns a packet; the loop body up to and including the
\* memcpy into g_mcu_rsp (a response) or event_update (an event)
mcu_thread_read_packet ==
    /\ mcu_pc = "read"
    /\ mcu_rx # << >>
    /\ LET pkt == Head(mcu_rx)
           res == Len(pkt)
           class == mcu_classify(pkt, res)
       IN  /\ mcu_rx' = Tail(mcu_rx)
           /\ g_mcu_rsp' = IF class = "response"
                           THEN MemCpy(g_mcu_rsp, 0, pkt, res) ELSE g_mcu_rsp
           /\ events' = IF class = "event"
                        THEN event_update(events, ext_mcu_event_callback, pkt, res)
                        ELSE events
           /\ mcu_pc' = IF class = "response" THEN "rel_lock" ELSE "loop"
           /\ cseen' = IF class = "response" /\ parse_rsp(pkt, res).data_len > 0
                       THEN [c \in Callers |->
                               IF InWaitWindow(c)
                               THEN cseen[c] \cup {At(pkt, HeaderLen)}
                               ELSE cseen[c]]
                       ELSE cseen
           /\ rx_statuses' = IF class = "response" /\ parse_rsp(pkt, res).data_len > 0
                             THEN rx_statuses \cup {At(pkt, HeaderLen)}
                             ELSE rx_statuses
    /\ UNCHANGED <<progVars, cbVars, pureVars, appVars, syncVars, mainVars, cpc, cdev, cdata, cwret,
                   cresult, ckind, ncalls, hidVars, imuVars, mcu_thread_flag,
                   dev_inbox, nevents, leaked>>

\* cmd_release: pthread_mutex_lock(&lock_cmd)
cmd_release_lock ==
    /\ mcu_pc = "rel_lock"
    /\ IF lock_cmd.valid
       THEN /\ lock_cmd.owner = 0
            /\ lock_cmd' = [lock_cmd EXCEPT !.owner = McuOwner]
       ELSE UNCHANGED lock_cmd
    /\ mcu_pc' = "rel_signal"
    /\ UNCHANGED <<progVars, cbVars, pureVars, appVars, signal_cond_cmd, mainVars, callerVars,
                   hidVars, imuVars, g_mcu_rsp, mcu_thread_flag, mcu_rx,
                   dev_inbox, events, nevents, leaked, rx_statuses>>

\* a signal that wakes nobody
SignalTargetsNone(waiters) == {}

\* the waiters pthread_cond_signal may wake: one of those blocked, if any
SignalTargets(waiters) == waiters

\* cmd_release: pthread_cond_signal then pthread_mutex_unlock.  The signal
\* wakes one waiter if there is one and is lost otherwise.
cmd_release_signal ==
    /\ mcu_pc = "rel_signal"
    /\ IF signal_cond_cmd.valid /\ SignalTargets(signal_cond_cmd.waiters) # {}
       THEN \E w \in SignalTargets(signal_cond_cmd.waiters) :
               /\ signal_cond_cmd' = [signal_cond_cmd EXCEPT !.waiters = @ \ {w}]
               /\ cwret' = [cwret EXCEPT ![w] = 0]
               /\ cpc' = [cpc EXCEPT ![w] = "reacquire"]
       ELSE UNCHANGED <<signal_cond_cmd, cwret, cpc>>
    /\ lock_cmd' = IF lock_cmd.owner = McuOwner
                   THEN [lock_cmd EXCEPT !.owner = 0] ELSE lock_cmd
    /\ mcu_pc' = "loop"
    /\ UNCHANGED <<progVars, cbVars, pureVars, appVars, mainVars, cdev, cdata, cresult, ckind,
                   ncalls, cseen, hidVars, imuVars, g_mcu_rsp, mcu_thread_flag,
                   mcu_rx, dev_inbox, events, nevents, leaked, rx_statuses>>

\* the thread function returns ("MCU thread stopped")
mcu_thread_exit ==
    /\ mcu_pc = "exiting"
    /\ mcu_pc' = "done"
    /\ UNCHANGED <<progVars, cbVars, pureVars, appVars, syncVars, mainVars, callerVars, hidVars,
                   imuVars, g_mcu_rsp, mcu_thread_flag, mcu_rx, dev_inbox,
                   events, nevents, leaked, rx_statuses>>

(***************************************************************************)
(* The device on the control channel.                                      *)
(***************************************************************************)
\* the device answers its oldest request: status = the request's data byte
DeviceRespond ==
    /\ dev_inbox # << >>
    /\ dev_inbox' = Tail(dev_inbox)
    /\ mcu_rx' = IF mcu_open # 0
                 THEN Append(mcu_rx, ResponseFrame(At(Head(dev_inbox), HeaderLen)))
                 ELSE mcu_rx
    /\ UNCHANGED <<progVars, cbVars, pureVars, appVars, syncVars, mainVars, callerVars, hidVars,
                   imuVars, g_mcu_rsp, mcu_thread_flag, mcu_pc, events, nevents,
                   leaked, rx_statuses>>

\* the device answers its oldest request with an empty payload
DeviceRespondEmpty ==
    /\ dev_inbox # << >>
    /\ mcu_open # 0
    /\ dev_inbox' = Tail(dev_inbox)
    /\ mcu_rx' = Append(mcu_rx, EmptyResponseFrame)
    /\ UNCHANGED <<progVars, cbVars, pureVars, appVars, syncVars, mainVars, callerVars, hidVars,
                   imuVars, g_mcu_rsp, mcu_thread_flag, mcu_pc, events, nevents,
                   leaked, rx_statuses>>

\* the device sends an unsolicited event
DeviceEvent(id) ==
    /\ nevents + nsamples < MaxFrames
    /\ mcu_open # 0
    /\ nevents' = nevents + 1
    /\ mcu_rx' = Append(mcu_rx, EventFrame(id))
    /\ UNCHANGED <<progVars, cbVars, pureVars, appVars, syncVars, mainVars, callerVars, hidVars,
                   imuVars, g_mcu_rsp, mcu_thread_flag, mcu_pc, dev_inbox,
                   events, leaked, rx_statuses>>

(***************************************************************************)
(* imu_thread: the sensor-channel reader.                                  *)
(***************************************************************************)
\* pthread_barrier_wait(&barrier_imu): the thread arrives
imu_thread_arrive ==
    /\ imu_pc = "start"
    /\ barrier_imu' = [barrier_imu EXCEPT !.arrived = @ + 1]
    /\ imu_pc' = "in_barrier"
    /\ UNCHANGED <<crc_table_initialized, g_mcu_dev, g_imu_dev, mcu_hid_path,
                   imu_hid_path, mcu_read_tid, imu_read_tid, barrier_mcu,
                   cbVars, pureVars, appVars, syncVars, mainVars, callerVars, hidVars,
                   imu_thread_flag, imu_rx, samples, nsamples,
                   g_mcu_rsp, mcu_thread_flag, mcu_pc, mcu_rx, dev_inbox,
                   events, nevents, leaked, rx_statuses>>

imuRest == <<progVars, cbVars, pureVars, appVars, syncVars, mainVars, callerVars, hidVars,
             g_mcu_rsp, mcu_thread_flag, mcu_pc, mcu_rx, dev_inbox, events,
             nevents, leaked, rx_statuses>>

\* pthread_barrier_wait returns once BarrierCount threads have arrived
imu_thread_started ==
    /\ imu_pc = "in_barrier"
    /\ barrier_imu.arrived >= BarrierCount
    /\ imu_pc' = "loop"
    /\ UNCHANGED <<imuRest, imu_thread_flag, imu_rx, samples, nsamples>>

\* while (imu_thread_flag): enter hid_read_timeout, or leave the loop
imu_thread_loop ==
    /\ imu_pc = "loop"
    /\ imu_pc' = IF imu_thread_flag THEN "read" ELSE "exiting"
    /\ UNCHANGED <<imuRest, imu_thread_flag, imu_rx, samples, nsamples>>

\* hid_read_timeout returns a negative value: clear the flag and break
imu_thread_read_error ==
    /\ imu_pc = "read"
    /\ imu_thread_flag' = FALSE
    /\ imu_pc' = "exiting"
    /\ UNCHANGED <<imuRest, imu_rx, samples, nsamples>>

\* hid_read_timeout returns 0 after its 1-second timeout: continue
imu_thread_read_timeout ==
    /\ imu_pc = "read"
    /\ imu_rx = << >>
    /\ imu_pc' = "loop"
    /\ UNCHANGED <<imuRest, imu_thread_flag, imu_rx, samples, nsamples>>

\* how imu_thread classifies a packet of res bytes
imu_classify(pkt, res) ==
    IF At(pkt, 0) = 255 /\ At(pkt, 1) = ImuMagic
    THEN IF parse_rsp(pkt, res).cmd_id # ParseErrId THEN "sample" ELSE "dropped"
    ELSE "badmagic"

\* the record imu_update passes to the registered callback
SampleOf(cb, pkt, res) ==
    LET p == parse_rsp(pkt, res)
    IN  [cb |-> cb, data |-> p.data, len |-> p.data_len, ts |-> U32(pkt, 6)]

\* imu_update: invoke the callback if one is registered
imu_update(log, cb, pkt, res) ==
    IF cb # NULL THEN Append(log, SampleOf(cb, pkt, res)) ELSE log

\* hid_read_timeout returns a packet: the loop body
imu_thread_read_packet ==
    /\ imu_pc = "read"
    /\ imu_rx # << >>
    /\ LET pkt == Head(imu_rx)
           res == Len(pkt)
       IN  /\ imu_rx' = Tail(imu_rx)
           /\ samples' = IF imu_classify(pkt, res) = "sample"
                         THEN imu_update(samples, ext_imu_data_callback, pkt, res)
                         ELSE samples
    /\ imu_pc' = "loop"
    /\ UNCHANGED <<imuRest, imu_thread_flag, nsamples>>

\* the thread function returns ("IMU thread stopped")
imu_thread_exit ==
    /\ imu_pc = "exiting"
    /\ imu_pc' = "done"
    /\ UNCHANGED <<imuRest, imu_thread_flag, imu_rx, samples, nsamples>>

\* the device sends one sensor sample
DeviceSample ==
    /\ nevents + nsamples < MaxFrames
    /\ imu_open # 0
    /\ nsamples' = nsamples + 1
    /\ imu_rx' = Append(imu_rx, SampleFrame)
    /\ UNCHANGED <<imuRest, imu_pc, imu_thread_flag, samples>>

ImuStep ==
    \/ imu_thread_loop
    \/ imu_thread_read_error
    \/ imu_thread_read_timeout
    \/ imu_thread_read_packet
    \/ imu_thread_exit

(***************************************************************************)
(* The lifecycle thread: viture_driver_init and viture_driver_close, with  *)
(* native_mcu_init / native_imu_init / native_*_deinit and                 *)
(* startRead* / stopRead* inlined.                                         *)
(***************************************************************************)
\* what no lifecycle step changes
lifeRest == <<cbVars, pureVars, appVars, callerVars, g_mcu_rsp, dev_inbox, events, nevents,
              samples, nsamples, rx_statuses>>
mcuSide == <<g_mcu_dev, mcu_read_tid, barrier_mcu, mcu_open, mcu_thread_flag,
             mcu_pc, mcu_rx>>
imuSide == <<g_imu_dev, imu_read_tid, barrier_imu, imu_open, imu_thread_flag,
             imu_pc, imu_rx>>

\* viture_driver_init up to the calls of native_mcu_init: hid_init,
\* init_crc_table, the two path lookups and the two "not found" exits.
\* hid_ok, mcu_found, imu_found: what hid_init and the lookups answer.
viture_driver_init_begin(hid_ok, mcu_found, imu_found) ==
    /\ main_pc = "idle" /\ nlife < MaxLifeOps
    /\ nlife' = nlife + 1
    /\ main_op' = "init"
    /\ IF ~hid_ok
       THEN /\ main_ret' = FALSE /\ main_pc' = "idle"
            /\ UNCHANGED <<crc_table_initialized, aus_filled, mcu_hid_path,
                           imu_hid_path, hid_lib>>
       ELSE /\ crc_table_initialized' = TRUE
            /\ aus_filled' = CrcTableSize
            /\ IF ~mcu_found
               THEN \* hid_exit(); return false;  imu_hid_path is not freed
                    /\ mcu_hid_path' = FALSE
                    /\ imu_hid_path' = imu_found
                    /\ hid_lib' = FALSE
                    /\ main_ret' = FALSE /\ main_pc' = "idle"
               ELSE IF ~imu_found
               THEN /\ mcu_hid_path' = FALSE
                    /\ imu_hid_path' = FALSE
                    /\ hid_lib' = FALSE
                    /\ main_ret' = FALSE /\ main_pc' = "idle"
               ELSE /\ mcu_hid_path' = TRUE
                    /\ imu_hid_path' = TRUE
                    /\ hid_lib' = TRUE
                    /\ main_pc' = "mcu_init"
                    /\ UNCHANGED main_ret
    /\ UNCHANGED <<cbVars, pureVars, imu_app, sent_mcu, sent_imu, callerVars,
                   g_mcu_rsp, dev_inbox, events, nevents, samples, nsamples,
                   rx_statuses, mcuSide, imuSide, syncVars, hid_next, leaked>>

\* native_mcu_init: already initialised, or open_hid_interface(mcu_hid_path)
native_mcu_init_open(opened) ==
    /\ main_pc = "mcu_init"
    /\ IF g_mcu_dev # NULL
       THEN /\ main_pc' = "imu_init"
            /\ UNCHANGED <<g_mcu_dev, mcu_open, hid_next, mcu_rx>>
       ELSE IF opened
       THEN /\ g_mcu_dev' = hid_next /\ mcu_open' = hid_next
            /\ hid_next' = hid_next + 1
            /\ mcu_rx' = << >>
            /\ main_pc' = "mcu_sync_init"
       ELSE \* open failed: native_mcu_init returns false
            /\ main_pc' = "unwind"
            /\ UNCHANGED <<g_mcu_dev, mcu_open, hid_next, mcu_rx>>
    /\ UNCHANGED <<lifeRest, imuSide, syncVars, crc_table_initialized,
                   mcu_hid_path, imu_hid_path, mcu_read_tid, barrier_mcu,
                   mcu_thread_flag, mcu_pc, main_op, main_ret, nlife, hid_lib,
                   leaked>>

\* native_mcu_init: pthread_mutex_init(&lock_cmd); pthread_cond_init(...)
native_mcu_init_sync ==
    /\ main_pc = "mcu_sync_init"
    /\ lock_cmd' = MutexOf(TRUE, 0)
    /\ signal_cond_cmd' = CondOf(TRUE, {})
    /\ main_pc' = "mcu_start"
    /\ UNCHANGED <<lifeRest, mcuSide, imuSide, crc_table_initialized,
                   mcu_hid_path, imu_hid_path, main_op, main_ret, nlife,
                   hid_lib, hid_next, leaked>>

\* startReadMcu: barrier init, flag, pthread_create, and the caller's own
\* arrival at the barrier.  created: whether pthread_create succeeds.
startReadMcu(created) ==
    /\ main_pc = "mcu_start"
    /\ IF mcu_thread_flag
       THEN /\ main_pc' = "imu_init"
            /\ UNCHANGED <<barrier_mcu, mcu_thread_flag, mcu_read_tid, mcu_pc>>
       ELSE IF created
       THEN /\ barrier_mcu' = BarrierOf(TRUE, 1)
            /\ mcu_thread_flag' = TRUE
            /\ mcu_read_tid' = 1
            /\ mcu_pc' = "start"
            /\ main_pc' = "mcu_bwait"
       ELSE \* startReadMcu returns false: the barrier stays initialised
            /\ barrier_mcu' = BarrierOf(TRUE, 0)
            /\ mcu_thread_flag' = FALSE
            /\ main_pc' = "mcu_close"
            /\ UNCHANGED <<mcu_read_tid, mcu_pc>>
    /\ UNCHANGED <<lifeRest, imuSide, syncVars, crc_table_initialized,
                   g_mcu_dev, mcu_open, mcu_rx, mcu_hid_path, imu_hid_path,
                   main_op, main_ret, nlife, hid_lib, hid_next, leaked>>

\* startReadMcu: pthread_barrier_wait(&barrier_mcu) returns
startReadMcu_barrier_return ==
    /\ main_pc = "mcu_bwait"
    /\ barrier_mcu.arrived >= BarrierCount
    /\ main_pc' = "imu_init"
    /\ UNCHANGED <<lifeRest, mcuSide, imuSide, syncVars,
                   crc_table_initialized, mcu_hid_path, imu_hid_path, main_op,
                   main_ret, nlife, hid_lib, hid_next, leaked>>

\* native_imu_init: already initialised (viture_driver_init returns true),
\* or open_hid_interface(imu_hid_path); on failure native_mcu_deinit follows
native_imu_init_open(opened) ==
    /\ main_pc = "imu_init"
    /\ IF g_imu_dev # NULL
       THEN /\ main_ret' = TRUE /\ main_pc' = "idle"
            /\ UNCHANGED <<g_imu_dev, imu_open, hid_next, imu_rx>>
       ELSE IF opened
       THEN /\ g_imu_dev' = hid_next /\ imu_open' = hid_next
            /\ hid_next' = hid_next + 1
            /\ imu_rx' = << >>
            /\ main_pc' = "imu_start"
            /\ UNCHANGED main_ret
       ELSE /\ main_pc' = "mcu_stop"
            /\ UNCHANGED <<g_imu_dev, imu_open, hid_next, imu_rx, main_ret>>
    /\ UNCHANGED <<lifeRest, mcuSide, syncVars, crc_table_initialized,
                   mcu_hid_path, imu_hid_path, imu_read_tid, barrier_imu,
                   imu_thread_flag, imu_pc, main_op, nlife, hid_lib, leaked>>

\* startReadImu, and native_imu_init's cleanup when it returns false
startReadImu(created) ==
    /\ main_pc = "imu_start"
    /\ IF imu_thread_flag
       THEN /\ main_ret' = TRUE /\ main_pc' = "idle"
            /\ UNCHANGED <<barrier_imu, imu_thread_flag, imu_read_tid, imu_pc,
                           g_imu_dev, imu_open, imu_rx>>
       ELSE IF created
       THEN /\ barrier_imu' = BarrierOf(TRUE, 1)
            /\ imu_thread_flag' = TRUE
            /\ imu_read_tid' = 1
            /\ imu_pc' = "start"
            /\ main_pc' = "imu_bwait"
            /\ UNCHANGED <<g_imu_dev, imu_open, imu_rx, main_ret>>
       ELSE \* hid_close(g_imu_dev); g_imu_dev = NULL; then native_mcu_deinit
            /\ barrier_imu' = BarrierOf(TRUE, 0)
            /\ imu_thread_flag' = FALSE
            /\ imu_open' = 0 /\ g_imu_dev' = NULL /\ imu_rx' = << >>
            /\ main_pc' = "mcu_stop"
            /\ UNCHANGED <<imu_read_tid, imu_pc, main_ret>>
    /\ UNCHANGED <<lifeRest, mcuSide, syncVars, crc_table_initialized,
                   mcu_hid_path, imu_hid_path, main_op, nlife, hid_lib,
                   hid_next, leaked>>

\* startReadImu: pthread_barrier_wait(&barrier_imu) returns, and with it
\* native_imu_init and viture_driver_init (true)
startReadImu_barrier_return ==
    /\ main_pc = "imu_bwait"
    /\ barrier_imu.arrived >= BarrierCount
    /\ main_ret' = TRUE /\ main_pc' = "idle"
    /\ UNCHANGED <<lifeRest, mcuSide, imuSide, syncVars,
                   crc_table_initialized, mcu_hid_path, imu_hid_path, main_op,
                   nlife, hid_lib, hid_next, leaked>>

\* viture_driver_close is called
viture_driver_close_begin ==
    /\ main_pc = "idle" /\ nlife < MaxLifeOps
    /\ nlife' = nlife + 1
    /\ main_op' = "close"
    /\ main_pc' = "imu_stop"
    /\ UNCHANGED <<lifeRest, mcuSide, imuSide, syncVars,
                   crc_table_initialized, mcu_hid_path, imu_hid_path, main_ret,
                   hid_lib, hid_next, leaked>>

\* native_imu_deinit: nothing if g_imu_dev is NULL; else stopReadImu up to
\* its pthread_join.  With the flag already false (the loop stopped after a
\* read error) the thread is not joined; the barrier is destroyed either way.
stopReadImu ==
    /\ main_pc = "imu_stop"
    /\ IF g_imu_dev = NULL
       THEN /\ main_pc' = "mcu_stop"
            /\ UNCHANGED <<imu_thread_flag, imu_read_tid, barrier_imu, leaked>>
       ELSE IF imu_thread_flag
       THEN /\ imu_thread_flag' = FALSE
            /\ IF imu_read_tid # 0
               THEN /\ main_pc' = "imu_join"
                    /\ UNCHANGED <<imu_read_tid, barrier_imu>>
               ELSE /\ main_pc' = "imu_close"
                    /\ barrier_imu' = BarrierOf(FALSE, 0)
                    /\ UNCHANGED imu_read_tid
            /\ UNCHANGED leaked
       ELSE /\ leaked' = IF imu_pc # "none" THEN leaked + 1 ELSE leaked
            /\ barrier_imu' = BarrierOf(FALSE, 0)
            /\ main_pc' = "imu_close"
            /\ UNCHANGED <<imu_thread_flag, imu_read_tid>>
    /\ UNCHANGED <<lifeRest, mcuSide, syncVars, crc_table_initialized,
                   mcu_hid_path, imu_hid_path, g_imu_dev, imu_open, imu_pc,
                   imu_rx, main_op, main_ret, nlife, hid_lib, hid_next>>

\* stopReadImu: pthread_join returns once the thread function has returned
stopReadImu_join ==
    /\ main_pc = "imu_join"
    /\ imu_pc = "done"
    /\ imu_pc' = "none"
    /\ imu_read_tid' = 0
    /\ barrier_imu' = BarrierOf(FALSE, 0)
    /\ main_pc' = "imu_close"
    /\ UNCHANGED <<lifeRest, mcuSide, syncVars, crc_table_initialized,
                   mcu_hid_path, imu_hid_path, g_imu_dev, imu_open,
                   imu_thread_flag, imu_rx, main_op, main_ret, nlife, hid_lib,
                   hid_next, leaked>>

\* native_imu_deinit: hid_close(g_imu_dev); g_imu_dev = NULL
native_imu_deinit_close ==
    /\ main_pc = "imu_close"
    /\ imu_open' = 0 /\ g_imu_dev' = NULL /\ imu_rx' = << >>
    /\ main_pc' = "mcu_stop"
    /\ UNCHANGED <<lifeRest, mcuSide, syncVars, crc_table_initialized,
                   mcu_hid_path, imu_hid_path, imu_read_tid, barrier_imu,
                   imu_thread_flag, imu_pc, main_op, main_ret, nlife, hid_lib,
                   hid_next, leaked>>

\* native_mcu_deinit: nothing if g_mcu_dev is NULL; else stopReadMcu up to
\* its pthread_join (skipped when the loop has already cleared its flag)
stopReadMcu ==
    /\ main_pc = "mcu_stop"
    /\ IF g_mcu_dev = NULL
       THEN /\ main_pc' = "unwind"
            /\ UNCHANGED <<mcu_thread_flag, mcu_read_tid, barrier_mcu, leaked>>
       ELSE IF mcu_thread_flag
       THEN /\ mcu_thread_flag' = FALSE
            /\ IF mcu_read_tid # 0
               THEN /\ main_pc' = "mcu_join"
                    /\ UNCHANGED <<mcu_read_tid, barrier_mcu>>
               ELSE /\ main_pc' = "mcu_close"
                    /\ barrier_mcu' = BarrierOf(FALSE, 0)
                    /\ UNCHANGED mcu_read_tid
            /\ UNCHANGED leaked
       ELSE /\ leaked' = IF mcu_pc # "none" THEN leaked + 1 ELSE leaked
            /\ barrier_mcu' = BarrierOf(FALSE, 0)
            /\ main_pc' = "mcu_close"
            /\ UNCHANGED <<mcu_thread_flag, mcu_read_tid>>
    /\ UNCHANGED <<lifeRest, imuSide, syncVars, crc_table_initialized,
                   mcu_hid_path, imu_hid_path, g_mcu_dev, mcu_open, mcu_pc,
                   mcu_rx, main_op, main_ret, nlife, hid_lib, hid_next>>

\* stopReadMcu: pthread_join returns once the thread function has returned
stopReadMcu_join ==
    /\ main_pc = "mcu_join"
    /\ mcu_pc = "done"
    /\ mcu_pc' = "none"
    /\ mcu_read_tid' = 0
    /\ barrier_mcu' = BarrierOf(FALSE, 0)
    /\ main_pc' = "mcu_close"
    /\ UNCHANGED <<lifeRest, imuSide, syncVars, crc_table_initialized,
                   mcu_hid_path, imu_hid_path, g_mcu_dev, mcu_open,
                   mcu_thread_flag, mcu_rx, main_op, main_ret, nlife, hid_lib,
                   hid_next, leaked>>

\* what pthread_mutex_destroy can leave of a mutex: destroyed; or, when a
\* thread holds it (undefined by POSIX), either destroyed or untouched (EBUSY)
MutexDestroyOutcomes(m) ==
    IF m.owner = 0 THEN {MutexOf(FALSE, 0)} ELSE {MutexOf(FALSE, m.owner), m}

\* native_mcu_deinit / native_mcu_init's failure path: hid_close(g_mcu_dev);
\* g_mcu_dev = NULL; pthread_mutex_destroy(&lock_cmd)
native_mcu_deinit_close ==
    /\ main_pc = "mcu_close"
    /\ mcu_open' = 0 /\ g_mcu_dev' = NULL /\ mcu_rx' = << >>
    /\ lock_cmd' \in MutexDestroyOutcomes(lock_cmd)
    /\ main_pc' = "cond_destroy"
    /\ UNCHANGED <<lifeRest, imuSide, signal_cond_cmd, crc_table_initialized,
                   mcu_hid_path, imu_hid_path, mcu_read_tid, barrier_mcu,
                   mcu_thread_flag, mcu_pc, main_op, main_ret, nlife, hid_lib,
                   hid_next, leaked>>

\* pthread_cond_destroy(&signal_cond_cmd).  With threads still blocked on it
\* (undefined by POSIX) the call may return at once or only after they have
\* left: both are runs of this step, taken early or late.
native_mcu_deinit_cond_destroy ==
    /\ main_pc = "cond_destroy"
    /\ signal_cond_cmd' = CondOf(FALSE, {})
    /\ main_pc' = "unwind"
    /\ UNCHANGED <<lifeRest, mcuSide, imuSide, lock_cmd,
                   crc_table_initialized, mcu_hid_path, imu_hid_path, main_op,
                   main_ret, nlife, hid_lib, hid_next, leaked>>

\* the tail of viture_driver_close, and of viture_driver_init once
\* native_mcu_init or native_imu_init has failed: free both paths, hid_exit,
\* return (false from viture_driver_init)
viture_driver_unwind ==
    /\ main_pc = "unwind"
    /\ mcu_hid_path' = FALSE /\ imu_hid_path' = FALSE
    /\ hid_lib' = FALSE
    /\ main_ret' = IF main_op = "init" THEN FALSE ELSE main_ret
    /\ main_pc' = "idle"
    /\ UNCHANGED <<lifeRest, mcuSide, imuSide, syncVars,
                   crc_table_initialized, main_op, nlife, hid_next, leaked>>

\* the callbacks an application registers (NULL: none)
CallbackIds == {NULL, 1}

\* a registration that keeps a callback already registered
viture_set_mcu_event_callback_keeping_first(callback) ==
    /\ main_pc = "idle" /\ nlife < MaxLifeOps
    /\ nlife' = nlife + 1
    /\ ext_mcu_event_callback' = IF ext_mcu_event_callback = NULL
                                 THEN callback ELSE ext_mcu_event_callback
    /\ registrations' = Append(registrations, Registration("event", callback))
    /\ UNCHANGED <<progVars, pureVars, appVars, ext_imu_data_callback, syncVars, main_pc,
                   main_op, main_ret, callerVars, hidVars, imuVars, g_mcu_rsp,
                   mcu_thread_flag, mcu_pc, mcu_rx, dev_inbox, events, nevents,
                   leaked, rx_statuses>>

\* viture_set_mcu_event_callback(callback)
viture_set_mcu_event_callback(callback) ==
    /\ main_pc = "idle" /\ nlife < MaxLifeOps
    /\ nlife' = nlife + 1
    /\ ext_mcu_event_callback' = callback
    /\ registrations' = Append(registrations, Registration("event", callback))
    /\ UNCHANGED <<progVars, pureVars, appVars, ext_imu_data_callback, syncVars, main_pc,
                   main_op, main_ret, callerVars, hidVars, imuVars, g_mcu_rsp, mcu_thread_flag,
                   mcu_pc, mcu_rx, dev_inbox, events, nevents, leaked,
                   rx_statuses>>

\* viture_set_imu_data_callback(callback)
viture_set_imu_data_callback(callback) ==
    /\ main_pc = "idle" /\ nlife < MaxLifeOps
    /\ nlife' = nlife + 1
    /\ ext_imu_data_callback' = callback
    /\ registrations' = Append(registrations, Registration("sample", callback))
    /\ UNCHANGED <<progVars, pureVars, appVars, ext_mcu_event_callback, syncVars, main_pc,
                   main_op, main_ret, callerVars, hidVars, imuVars, g_mcu_rsp, mcu_thread_flag,
                   mcu_pc, mcu_rx, dev_inbox, events, nevents, leaked,
                   rx_statuses>>

InitStep ==
    \/ \E hid_ok, mcu_found, imu_found \in BOOLEAN :
          viture_driver_init_begin(hid_ok, mcu_found, imu_found)
    \/ \E opened \in BOOLEAN : native_mcu_init_open(opened)
    \/ native_mcu_init_sync
    \/ \E created \in BOOLEAN : startReadMcu(created)
    \/ startReadMcu_barrier_return
    \/ \E opened \in BOOLEAN : native_imu_init_open(opened)
    \/ \E created \in BOOLEAN : startReadImu(created)
    \/ startReadImu_barrier_return

CloseStep ==
    \/ stopReadImu
    \/ stopReadImu_join
    \/ native_imu_deinit_close
    \/ stopReadMcu
    \/ stopReadMcu_join
    \/ native_mcu_deinit_close
    \/ native_mcu_deinit_cond_destroy
    \/ viture_driver_unwind

(***************************************************************************)
(* The command path alone: application threads, the control reader and the *)
(* device, on an initialised driver.                                       *)
(***************************************************************************)
CallerStep(c) ==
    \/ \E enable \in BOOLEAN : set_imu(c, enable)
    \/ cmd_exec_write_ok(c)
    \/ cmd_exec_write_fail(c)
    \/ cmd_wait_lock(c)
    \/ cmd_wait_timedwait(c)
    \/ cmd_wait_timeout(c)
    \/ cmd_wait_return(c)
    \/ cmd_exec_finish(c)

McuStep ==
    \/ mcu_thread_loop
    \/ mcu_thread_read_error
    \/ mcu_thread_read_timeout
    \/ mcu_thread_read_packet
    \/ cmd_release_lock
    \/ cmd_release_signal
    \/ mcu_thread_exit

DeviceStep ==
    \/ DeviceRespond
    \/ DeviceRespondEmpty
    \/ \E id \in EventIds : DeviceEvent(id)

NextCmd ==
    \/ \E c \in Callers : CallerStep(c)
    \/ McuStep
    \/ DeviceStep

SpecCmd == InitRunning /\ [][NextCmd]_vars

\* the same with a device that answers every request, once, with the
\* request's own data byte
NextEcho ==
    \/ \E c \in Callers : CallerStep(c)
    \/ McuStep
    \/ DeviceRespond

SpecEcho == InitRunning /\ [][NextEcho]_vars

(***************************************************************************)
(* Properties of the command path.                                         *)
(***************************************************************************)
\* C1: synchronous commands are serialized: at most one cmd_exec call is
\* between writing its request frame and returning.
C1_AtMostOneInFlight == Cardinality({c \in Callers : InFlight(c)}) <= 1

\* C2: with a single caller (no other thread has called), a call during
\* which the control reader received (and released) a response frame with a
\* non-empty payload, after the request was written and before the wait
\* timed out, returns that frame's first payload byte.
C2_SingleCallerGetsStatus ==
    \A c \in Callers :
        ( /\ \A d \in Callers \ {c} : ncalls[d] = 0
          /\ ncalls[c] > 0 /\ cpc[c] = "idle"
          /\ cseen[c] # {} )
        => \E st \in cseen[c] : ckind[c] = "status" /\ cresult[c] = Uint(0, st)

\* C4: responses are never interleaved: with a device that answers each
\* request once (echoing the request's data byte), a call that returns a
\* device status returns the status of the answer to its own request.
C4_OwnResponse ==
    \A c \in Callers :
        (cpc[c] = "idle" /\ ckind[c] = "status")
        => cresult[c] = Uint(0, cdata[c])

\* the control reader is about to take a well-formed frame with a nonzero
\* command id off the channel while a call is blocked in its wait and an
\* event callback is registered
EventFrameArrives ==
    /\ mcu_pc = "read" /\ mcu_rx # << >>
    /\ At(Head(mcu_rx), 0) = 255 /\ At(Head(mcu_rx), 1) = McuMagic
    /\ U16(Head(mcu_rx), 14) # 0
    /\ ext_mcu_event_callback # NULL
    /\ \E c \in Callers : cpc[c] = "blocked"

\* C5: a control-channel frame with a nonzero command id received while a
\* call is waiting is delivered to the registered event callback, leaves
\* g_mcu_rsp and the condition variable alone and does not end the wait.
C5_EventDeliveredWithoutInterference ==
    [][ (EventFrameArrives /\ mcu_rx' = Tail(mcu_rx))
        => /\ Len(events') = Len(events) + 1
           /\ events'[Len(events')].id = U16(Head(mcu_rx), 14)
           /\ g_mcu_rsp' = g_mcu_rsp
           /\ signal_cond_cmd' = signal_cond_cmd
           /\ \A c \in Callers : cpc[c] = "blocked" => cpc'[c] = "blocked"
      ]_vars

(***************************************************************************)
(* The whole driver, from a fresh process: the lifecycle thread, the two   *)
(* reader threads, one application thread issuing commands, the device.    *)
(***************************************************************************)
Next ==
    \/ InitStep
    \/ viture_driver_close_begin
    \/ CloseStep
    \/ \E cb \in CallbackIds : viture_set_mcu_event_callback(cb)
    \/ \E cb \in CallbackIds : viture_set_imu_data_callback(cb)
    \/ \E c \in LifeCallers : CallerStep(c)
    \/ \E c \in LifeCallers : cmd_wait_destroyed(c)
    \/ mcu_thread_arrive
    \/ mcu_thread_started
    \/ McuStep
    \/ imu_thread_arrive
    \/ imu_thread_started
    \/ ImuStep
    \/ DeviceStep
    \/ DeviceSample

Spec == Init /\ [][Next]_vars

(***************************************************************************)
(* Properties of the lifecycle.                                            *)
(***************************************************************************)
\* C6: viture_driver_close closes a channel's handle only after that
\* channel's reader thread has been joined.
C6_CloseOnlyAfterJoin ==
    [][ /\ (main_op = "close" /\ mcu_open # 0 /\ mcu_open' = 0) => mcu_pc = "none"
        /\ (main_op = "close" /\ imu_open # 0 /\ imu_open' = 0) => imu_pc = "none"
      ]_vars

\* nothing of the driver is held: no thread, no handle, no path, no HID
\* library, no mutex, condition variable or barrier
NothingHeld ==
    /\ mcu_pc = "none" /\ imu_pc = "none"
    /\ mcu_open = 0 /\ imu_open = 0
    /\ g_mcu_dev = NULL /\ g_imu_dev = NULL
    /\ ~mcu_hid_path /\ ~imu_hid_path
    /\ ~hid_lib
    /\ ~lock_cmd.valid /\ ~signal_cond_cmd.valid
    /\ ~barrier_mcu.valid /\ ~barrier_imu.valid

\* C7: viture_driver_init fails atomically: when the first API call of the
\* process is viture_driver_init and it returns false, nothing is held.
C7_InitFailsAtomically ==
    (nlife = 1 /\ main_op = "init" /\ main_pc = "idle" /\ ~main_ret)
    => NothingHeld

\* viture_driver_init returns true in this step
InitReturnsTrue ==
    /\ main_pc # "idle" /\ main_pc' = "idle"
    /\ main_op' = "init" /\ main_ret'

\* viture_driver_init is inside pthread_barrier_wait and can get out: BarrierCount
\* threads have arrived, or the reader thread is about to arrive
BarrierWaitEnds ==
    /\ main_pc = "mcu_bwait"
       => (barrier_mcu.arrived >= BarrierCount \/ mcu_pc = "start")
    /\ main_pc = "imu_bwait"
       => (barrier_imu.arrived >= BarrierCount \/ imu_pc = "start")

\* C8 (as the code has it): viture_driver_init returns true only after both
\* reader threads have been created and have arrived at their startup
\* barrier, and it never blocks forever at a barrier.  (A thread may not yet
\* have come back from pthread_barrier_wait, and a loop that met a read
\* error may already have cleared its flag.)
C8_InitReturnsAfterBothArrived ==
    /\ [][ InitReturnsTrue
           => /\ barrier_mcu'.valid /\ barrier_mcu'.arrived = BarrierCount
              /\ barrier_imu'.valid /\ barrier_imu'.arrived = BarrierCount
              /\ mcu_pc' \notin {"none", "start"}
              /\ imu_pc' \notin {"none", "start"}
         ]_vars
    /\ []BarrierWaitEnds

\* C8 (as stated): when viture_driver_init returns true both flags are true
\* and both threads have left pthread_barrier_wait.
C8_InitReturnsWithLoopsRunning ==
    [][ InitReturnsTrue
        => /\ mcu_thread_flag' /\ imu_thread_flag'
           /\ mcu_pc' \in {"loop", "read", "rel_lock", "rel_signal"}
           /\ imu_pc' \in {"loop", "read"}
      ]_vars

\* viture_driver_init has just returned true while the sensor reader is
\* still inside pthread_barrier_wait
C8_Witness ==
    /\ main_op = "init" /\ main_pc = "idle" /\ main_ret
    /\ mcu_pc = "loop" /\ imu_pc = "in_barrier"

\* a uint above 0xFF
AboveByte(u) == u.hi > 0 \/ u.lo > 255

CallerProgress(c) ==
    \/ cmd_exec_write_ok(c)
    \/ cmd_exec_write_fail(c)
    \/ cmd_wait_lock(c)
    \/ cmd_wait_timedwait(c)
    \/ cmd_wait_destroyed(c)
    \/ cmd_wait_timeout(c)
    \/ cmd_wait_return(c)
    \/ cmd_exec_finish(c)

\* the command path with a device that answers, answers with an empty
\* payload or stays silent, and sends nothing unsolicited
NextCmdQuiet ==
    \/ \E c \in Callers : CallerStep(c)
    \/ McuStep
    \/ DeviceRespond
    \/ DeviceRespondEmpty

FairSpecCmd ==
    /\ InitRunning /\ [][NextCmdQuiet]_vars
    /\ \A c \in Callers : WF_vars(CallerProgress(c))
    /\ WF_vars(McuStep)

\* viture_driver_close on a running driver, with a call in flight
NextClose ==
    \/ viture_driver_close_begin
    \/ CloseStep
    \/ \E c \in LifeCallers : CallerStep(c)
    \/ \E c \in LifeCallers : cmd_wait_destroyed(c)
    \/ McuStep
    \/ ImuStep
    \/ DeviceRespond
    \/ DeviceSample

FairSpecClose ==
    /\ InitRunning /\ [][NextClose]_vars
    /\ \A c \in LifeCallers : WF_vars(CallerProgress(c))
    /\ WF_vars(McuStep)
    /\ WF_vars(ImuStep)
    /\ WF_vars(CloseStep)

\* C3: every cmd_exec call eventually returns, whatever the device does and
\* however many callers there are; and as long as no response frame has ever
\* been received, a call that got as far as waiting returns the timeout
\* value 0xFFFFFFFE.
C3_EveryCallReturns ==
    /\ \A c \in Callers : InFlight(c) ~> (cpc[c] = "idle")
    /\ [](\A c \in Callers :
            (cpc[c] = "idle" /\ ckind[c] \in {"timeout", "empty", "status"}
             /\ g_mcu_rsp = Zeros(RspBufSize))
            => (ckind[c] = "timeout" /\ cresult[c] = ErrTimeout))

\* all callers have called and each has come back with the timeout value,
\* no response frame having been received
C3_Witness ==
    /\ \A c \in Callers :
          cpc[c] = "idle" /\ ncalls[c] = MaxCalls /\ ckind[c] = "timeout"
    /\ g_mcu_rsp = Zeros(RspBufSize)

\* viture_driver_close is running while call c is in flight
CloseDuringCall(c) == main_op = "close" /\ main_pc # "idle" /\ InFlight(c)

C11_TimeoutDistinct ==
    \A c \in Callers :
        (cpc[c] = "idle" /\ ckind[c] \in {"write", "empty", "notinit"})
            => cresult[c] # TimeoutResult

\* a step of caller c on the timeout path of cmd_exec: the wait times out,
\* cmd_wait returns ETIMEDOUT, cmd_exec returns
TimeoutPathStep(c) ==
    /\ cpc'[c] # cpc[c]
    /\ \/ cpc[c] = "blocked" /\ cwret'[c] = ETIMEDOUT
       \/ cpc[c] \in {"reacquire", "after_wait"} /\ cwret[c] = ETIMEDOUT

\* the driver state a command relies on
DriverState ==
    <<g_mcu_rsp, g_mcu_dev, g_imu_dev, mcu_open, imu_open, mcu_thread_flag,
      imu_thread_flag, mcu_pc, imu_pc, mcu_read_tid, imu_read_tid>>

\* C12: a timed-out call leaves the driver unchanged and usable.  Every step
\* of the timeout path leaves the response slot, both handles, both flags and
\* both reader threads as they are; the call returns the timeout value
\* whatever the slot holds; it returns with lock_cmd free and itself off the
\* condition variable; and once it has returned, another call on the open
\* driver is accepted: set_imu can start, and a call at its write can write.
C12_TimeoutLeavesDriverUsable ==
    /\ [][\A c \in Callers : TimeoutPathStep(c) => DriverState' = DriverState]_vars
    /\ [](\A c \in Callers :
            (cpc[c] = "idle" /\ ckind[c] = "timeout")
                => /\ cresult[c] = ErrTimeout
                   /\ lock_cmd.owner # c
                   /\ c \notin signal_cond_cmd.waiters
                   /\ \A d \in Callers \ {c} :
                        /\ (cpc[d] = "idle" /\ ncalls[d] < MaxCalls /\ g_mcu_dev # NULL)
                              => ENABLED (set_imu(d, TRUE) /\ cpc'[d] = "write")
                        /\ cpc[d] = "write" => ENABLED cmd_exec_write_ok(d))

\* a call has timed out and returned with a response frame in the slot it
\* did not read, and the other thread has not called yet
C12_Witness ==
    \E c \in Callers, d \in Callers :
        /\ c # d
        /\ cpc[c] = "idle" /\ ckind[c] = "timeout"
        /\ g_mcu_rsp # Zeros(RspBufSize)
        /\ cpc[d] = "idle" /\ ncalls[d] = 0 /\ g_mcu_dev # NULL

(***************************************************************************)
(* The frame codec called on its own: cmd_build on chosen arguments, then   *)
(* parse_rsp on the buffer it filled; next to it one application thread's   *)
(* set_imu up to its hid_write.                                             *)
(***************************************************************************)
\* the longest payload a packet holds: 64 - 18
MaxDataLen == PacketSize - HeaderLen
\* command ids given to cmd_build
CodecCmdIds == {0, 1, SetImuCmdId, 4660, ParseErrId}
\* payloads given to cmd_build: every length 0..46, bytes all 0, all 255, or a
\* ramp
CodecPayloads ==
    UNION {{AsSeq([i \in 1..n |-> 0]), AsSeq([i \in 1..n |-> 255]),
            AsSeq([i \in 1..n |-> (7 * i + 1) % 256])} : n \in 0..MaxDataLen}

InitCodec ==
    /\ crc_table_initialized = TRUE
    /\ g_mcu_dev = 1 /\ g_imu_dev = 2
    /\ mcu_hid_path = TRUE /\ imu_hid_path = TRUE
    /\ lock_cmd = MutexOf(TRUE, 0)
    /\ signal_cond_cmd = CondOf(TRUE, {})
    /\ g_mcu_rsp = Zeros(RspBufSize)
    /\ mcu_read_tid = 1 /\ imu_read_tid = 1
    /\ mcu_thread_flag = TRUE /\ imu_thread_flag = TRUE
    /\ barrier_mcu = BarrierOf(TRUE, BarrierCount)
    /\ barrier_imu = BarrierOf(TRUE, BarrierCount)
    /\ ext_mcu_event_callback = 1 /\ ext_imu_data_callback = 1
    /\ registrations = <<Registration("event", 1), Registration("sample", 1)>>
    /\ AppIdle
    /\ mcu_pc = "loop" /\ imu_pc = "loop"
    /\ main_pc = "idle" /\ main_op = "init" /\ main_ret = TRUE
    /\ cpc = [c \in Callers |-> "idle"]
    /\ cdev = [c \in Callers |-> NULL]
    /\ cdata = [c \in Callers |-> 0]
    /\ cwret = [c \in Callers |-> 0]
    /\ cresult = [c \in Callers |-> Uint(0, 0)]
    /\ ckind = [c \in Callers |-> "none"]
    /\ hid_lib = TRUE /\ mcu_open = 1 /\ imu_open = 2 /\ hid_next = 3
    /\ mcu_rx = << >> /\ imu_rx = << >> /\ dev_inbox = << >>
    /\ events = << >> /\ samples = << >>
    /\ ncalls = [c \in Callers |-> 0]
    /\ nevents = 0 /\ nsamples = 0 /\ nlife = 1
    /\ leaked = 0
    /\ cseen = [c \in Callers |-> {}]
    /\ rx_statuses = {}
    /\ arg_cmd_id \in CodecCmdIds /\ arg_data \in CodecPayloads
    /\ out_buf = << >> /\ out_total_len = 0
    /\ parsed = NotCalled /\ exec_out = NotCalled /\ crc_out = << >>

\* what a call of a static function on its own leaves alone
pureRest ==
    <<appVars, progVars, cbVars, syncVars, mainVars, callerVars, hidVars, imuVars,
      g_mcu_rsp, mcu_thread_flag, mcu_pc, mcu_rx, dev_inbox, events, nevents,
      leaked, rx_statuses>>

\* cmd_build(arg_cmd_id, arg_data, Len(arg_data), out_buf, &out_total_len)
apply_cmd_build ==
    /\ out_buf = << >>
    /\ out_buf' = cmd_build(arg_cmd_id, arg_data).buf
    /\ out_total_len' = cmd_build(arg_cmd_id, arg_data).total_len
    /\ UNCHANGED <<pureRest, arg_cmd_id, arg_data, parsed, exec_out, crc_out>>

\* parse_rsp(out_buf, out_total_len, ...): its three outputs, and whether it
\* found the embedded CRC equal to the one it computed
apply_parse_rsp ==
    /\ out_buf # << >> /\ ~parsed.called
    /\ parsed' = LET p == parse_rsp(out_buf, out_total_len)
                 IN  [called |-> TRUE, cmd_id |-> p.cmd_id, data |-> p.data,
                      data_len |-> p.data_len,
                      crc_ok |-> ~parse_rsp_crc_mismatch(out_buf, out_total_len)]
    /\ UNCHANGED <<pureRest, arg_cmd_id, arg_data, out_buf, out_total_len,
                   exec_out, crc_out>>

\* cmd_exec from the return of cmd_wait on, woken by a response: the frame in
\* out_buf, a response frame (id 0), is what mcu_thread copied into the slot
apply_cmd_exec(want_body, calloc_ok) ==
    /\ parsed.called /\ ~exec_out.called
    /\ arg_cmd_id = 0
    /\ exec_out' = cmd_exec_outputs(MemCpy(g_mcu_rsp, 0, out_buf, out_total_len),
                                    want_body, calloc_ok)
    /\ UNCHANGED <<pureRest, arg_cmd_id, arg_data, out_buf, out_total_len,
                   parsed, crc_out>>

\* the first thread's set_imu, up to its hid_write
WriteStep ==
    \/ \E enable \in BOOLEAN : set_imu(1, enable)
    \/ cmd_exec_write_ok(1)
    \/ cmd_exec_write_fail(1)

NextCodec ==
    \/ apply_cmd_build
    \/ apply_parse_rsp
    \/ \E want_body, calloc_ok \in BOOLEAN : apply_cmd_exec(want_body, calloc_ok)
    \/ WriteStep

SpecCodec == InitCodec /\ [][NextCodec]_vars

\* C13: frame round trip.  For every command id and payload of 0..46 bytes,
\* parse_rsp on the 64-byte frame cmd_build produced returns the same command
\* id, the same payload bytes and length, and finds the CRC it computes equal
\* to the one embedded at bytes [2,4).
C13_RoundTrip ==
    parsed.called =>
        /\ parsed.cmd_id = arg_cmd_id
        /\ parsed.data_len = Len(arg_data)
        /\ parsed.data = arg_data
        /\ parsed.crc_ok

\* the round trip of a full packet: 46 payload bytes that are not all zero
C13_Witness ==
    /\ parsed.called
    /\ Len(arg_data) = MaxDataLen /\ arg_data[MaxDataLen] # 0
    /\ arg_cmd_id = ParseErrId

\* C14: every outbound wire unit is 64 bytes.  cmd_build reports a total
\* length of 64 for every payload length 0..46 and lays the frame out as:
\* FF FE at [0,2), 12 + payload length at [4,6), the command id at [14,16), the
\* payload from 18, zero in the remaining header bytes and after the payload;
\* and every hid_write of cmd_exec passed exactly 64 bytes.
C14_FrameIs64Bytes ==
    /\ out_buf # << >> =>
        /\ out_total_len = 64 /\ Len(out_buf) = 64
        /\ out_buf[1] = 255 /\ out_buf[2] = 254
        /\ U16(out_buf, 4) = 12 + Len(arg_data)
        /\ U16(out_buf, 14) = arg_cmd_id
        /\ \A i \in 1..Len(arg_data) : out_buf[18 + i] = arg_data[i]
        /\ \A i \in (7..14) \cup (17..18) \cup ((18 + Len(arg_data) + 1)..64) :
              out_buf[i] = 0
    /\ \A i \in 1..Len(dev_inbox) : Len(dev_inbox[i]) = 64

\* cmd_build has filled a frame with a full payload and a request has been
\* written
C14_Witness ==
    /\ out_buf # << >> /\ Len(arg_data) = MaxDataLen
    /\ Len(dev_inbox) > 0

(***************************************************************************)
(* cmd_crc called on its own, on a fresh process image: the first call      *)
(* finds the table not initialised and fills it (or init_crc_table ran      *)
(* before), the second finds it filled.                                     *)
(***************************************************************************)
\* longest byte sequence taken from the alphabet
MaxCrcLen == 3
CrcAlphabet == {0, 1, 90, 128, 255}
\* "123456789"
CheckString == <<49, 50, 51, 52, 53, 54, 55, 56, 57>>
\* the byte sequences given to cmd_crc: all over the alphabet up to MaxCrcLen,
\* every single byte, and the check string
CrcInputs ==
    UNION {{AsSeq(f) : f \in [1..n -> CrcAlphabet]} : n \in 0..MaxCrcLen}
        \cup {<<b>> : b \in Byte} \cup {CheckString}

InitCrc ==
    /\ crc_table_initialized = FALSE
    /\ g_mcu_dev = NULL /\ g_imu_dev = NULL
    /\ mcu_hid_path = FALSE /\ imu_hid_path = FALSE
    /\ lock_cmd = MutexOf(FALSE, 0)
    /\ signal_cond_cmd = CondOf(FALSE, {})
    /\ g_mcu_rsp = Zeros(RspBufSize)
    /\ mcu_read_tid = 0 /\ imu_read_tid = 0
    /\ mcu_thread_flag = FALSE /\ imu_thread_flag = FALSE
    /\ barrier_mcu = BarrierOf(FALSE, 0) /\ barrier_imu = BarrierOf(FALSE, 0)
    /\ ext_mcu_event_callback = NULL /\ ext_imu_data_callback = NULL
    /\ registrations = << >>
    /\ AppIdle
    /\ mcu_pc = "none" /\ imu_pc = "none"
    /\ main_pc = "idle" /\ main_op = "none" /\ main_ret = FALSE
    /\ cpc = [c \in Callers |-> "idle"]
    /\ cdev = [c \in Callers |-> NULL]
    /\ cdata = [c \in Callers |-> 0]
    /\ cwret = [c \in Callers |-> 0]
    /\ cresult = [c \in Callers |-> Uint(0, 0)]
    /\ ckind = [c \in Callers |-> "none"]
    /\ hid_lib = FALSE /\ mcu_open = 0 /\ imu_open = 0 /\ hid_next = 1
    /\ mcu_rx = << >> /\ imu_rx = << >> /\ dev_inbox = << >>
    /\ events = << >> /\ samples = << >>
    /\ ncalls = [c \in Callers |-> 0]
    /\ nevents = 0 /\ nsamples = 0 /\ nlife = 0
    /\ leaked = 0
    /\ cseen = [c \in Callers |-> {}]
    /\ rx_statuses = {}
    /\ arg_cmd_id = 0 /\ arg_data \in CrcInputs
    /\ out_buf = << >> /\ out_total_len = 0
    /\ parsed = NotCalled /\ exec_out = NotCalled /\ crc_out = << >>

\* what the CRC functions leave alone
crcRest ==
    <<imu_app, sent_mcu, sent_imu, g_mcu_dev, g_imu_dev, mcu_hid_path, imu_hid_path, mcu_read_tid,
      imu_read_tid, barrier_mcu, barrier_imu, cbVars, syncVars, mainVars,
      callerVars, hidVars, imuVars, g_mcu_rsp, mcu_thread_flag, mcu_pc, mcu_rx,
      dev_inbox, events, nevents, leaked, rx_statuses, arg_cmd_id, arg_data,
      out_buf, out_total_len, parsed, exec_out>>

\* init_crc_table(): fills aus_CrcTable once
apply_init_crc_table ==
    /\ ~crc_table_initialized
    /\ aus_filled' = CrcTableSize
    /\ crc_table_initialized' = TRUE
    /\ UNCHANGED <<crcRest, crc_out>>

\* cmd_crc(arg_data, Len(arg_data)): fills the table first when it is not
\* initialised, then runs its loop
apply_cmd_crc ==
    /\ Len(crc_out) < 2
    /\ aus_filled' = CrcTableSize
    /\ crc_table_initialized' = TRUE
    /\ crc_out' = Append(crc_out, cmd_crc(arg_data, 0, Len(arg_data)))
    /\ UNCHANGED crcRest

NextCrc ==
    \/ apply_init_crc_table
    \/ apply_cmd_crc

SpecCrc == InitCrc /\ [][NextCrc]_vars

\* a ^ b on 16 bits, bit by bit from bit k up
RECURSIVE BitwiseXor(_, _, _)
BitwiseXor(a, b, k) ==
    IF k = 16 THEN 0
    ELSE (2 ^ k) * (((a \div (2 ^ k)) + (b \div (2 ^ k))) % 2)
         + BitwiseXor(a, b, k + 1)

\* n shifts of the CRC-16-CCITT register, MSB first, polynomial 0x1021 (each
\* shift's value is computed before the next starts)
RECURSIVE BitwiseShift(_, _)
BitwiseShift(reg, n) ==
    IF n = 0 THEN reg
    ELSE LET next == IF reg >= 32768
                     THEN BitwiseXor((reg * 2) % 65536, 4129, 0)
                     ELSE (reg * 2) % 65536
         IN  IF next >= 0 THEN BitwiseShift(next, n - 1) ELSE 0

\* the standard bit-wise CRC-16-CCITT of data[i..], register reg
RECURSIVE BitwiseCrc(_, _, _)
BitwiseCrc(data, i, reg) ==
    IF i > Len(data) THEN reg
    ELSE LET next == BitwiseShift(BitwiseXor(reg, data[i] * 256, 0), 8)
         IN  IF next >= 0 THEN BitwiseCrc(data, i + 1, next) ELSE 0

\* C15: the table-driven cmd_crc equals the bit-wise CRC-16-CCITT (polynomial
\* 0x1021, initial register 0, MSB first, no final XOR) modulo 2^16 on every
\* byte sequence given, it is 0x31C3 on "123456789", and a second call on the
\* same bytes returns the same value as the first.
C15_CrcIsCcitt ==
    /\ \A i \in 1..Len(crc_out) :
          /\ crc_out[i] \in 0..65535
          /\ crc_out[i] = BitwiseCrc(arg_data, 1, 0)
    /\ Len(crc_out) = 2 => crc_out[1] = crc_out[2]
    /\ (arg_data = CheckString /\ Len(crc_out) > 0) => crc_out[1] = 12739

\* cmd_crc was called twice on a three-byte sequence with its high bits set,
\* the first call having filled the table
C15_Witness ==
    /\ Len(crc_out) = 2
    /\ arg_data = <<255, 128, 90>>

(***************************************************************************)
(* The two reader loops fed with good, damaged and malformed frames, and    *)
(* one application thread issuing commands.                                 *)
(***************************************************************************)
\* a frame whose embedded CRC is wrong
CorruptCrc(frame) == PutU16(frame, 2, (U16(frame, 2) + 1) % 65536)
\* a frame with its CRC field set to what parse_rsp computes
WithGoodCrc(frame) == PutU16(frame, 2, cmd_crc(frame, 4, U16(frame, 4) + 2))
\* a frame declaring another length
WithLenField(frame, n) == PutU16(frame, 4, n)

\* malformed by the length checks of parse_rsp, for a packet of res bytes:
\* declared length below 12, or a payload running past the bytes read or past
\* byte 64
Malformed(pkt, res) ==
    \/ U16(pkt, 4) < MinLenField
    \/ HeaderLen + (U16(pkt, 4) - MinLenField) > res
    \/ HeaderLen + (U16(pkt, 4) - MinLenField) > PacketSize

\* responses with a wrong CRC
CorruptResponseFrames == [st \in Statuses |-> CorruptCrc(ResponseFrames[st])]
\* event frames (id 1) and sample frames the device may send besides the good
\* ones: wrong CRC; declared length 5; declared length 12 + 60; only the
\* first 32 bytes of a frame declaring 20 payload bytes
DamagedEventFrames ==
    {CorruptCrc(EventFrames[1]),
     WithLenField(EventFrames[1], 5),
     WithLenField(EventFrames[1], MinLenField + 60),
     SubSeq(WithLenField(EventFrames[1], MinLenField + 20), 1, 32)}
DamagedSampleFrames ==
    {CorruptCrc(SampleFrame),
     WithLenField(SampleFrame, 5),
     WithLenField(SampleFrame, MinLenField + 60),
     SubSeq(WithLenField(SampleFrame, MinLenField + 20), 1, 32)}

\* the device answers its oldest request with a response whose CRC is wrong
DeviceRespondCorrupt ==
    /\ dev_inbox # << >>
    /\ mcu_open # 0
    /\ dev_inbox' = Tail(dev_inbox)
    /\ mcu_rx' = Append(mcu_rx, CorruptResponseFrames[At(Head(dev_inbox), HeaderLen)])
    /\ UNCHANGED <<progVars, cbVars, pureVars, appVars, syncVars, mainVars, callerVars,
                   hidVars, imuVars, g_mcu_rsp, mcu_thread_flag, mcu_pc, events,
                   nevents, leaked, rx_statuses>>

\* the device sends a damaged event frame
DeviceDamagedEvent(frame) ==
    /\ nevents + nsamples < MaxFrames
    /\ mcu_open # 0
    /\ nevents' = nevents + 1
    /\ mcu_rx' = Append(mcu_rx, frame)
    /\ UNCHANGED <<progVars, cbVars, pureVars, appVars, syncVars, mainVars, callerVars,
                   hidVars, imuVars, g_mcu_rsp, mcu_thread_flag, mcu_pc,
                   dev_inbox, events, leaked, rx_statuses>>

\* the device sends a damaged sample frame
DeviceDamagedSample(frame) ==
    /\ nevents + nsamples < MaxFrames
    /\ imu_open # 0
    /\ nsamples' = nsamples + 1
    /\ imu_rx' = Append(imu_rx, frame)
    /\ UNCHANGED <<imuRest, imu_pc, imu_thread_flag, samples>>

NextReaders ==
    \/ \E c \in LifeCallers : CallerStep(c)
    \/ McuStep
    \/ ImuStep
    \/ DeviceRespond
    \/ DeviceRespondCorrupt
    \/ DeviceEvent(1)
    \/ \E frame \in DamagedEventFrames : DeviceDamagedEvent(frame)
    \/ DeviceSample
    \/ \E frame \in DamagedSampleFrames : DeviceDamagedSample(frame)

SpecReaders == InitRunning /\ [][NextReaders]_vars

\* the control reader takes the packet at the head of its queue
McuTakesPacket == mcu_pc = "read" /\ mcu_rx # << >> /\ mcu_rx' = Tail(mcu_rx)
\* the sensor reader takes the packet at the head of its queue
ImuTakesPacket == imu_pc = "read" /\ imu_rx # << >> /\ imu_rx' = Tail(imu_rx)

\* C16: a checksum mismatch never causes a frame to be discarded.  When a
\* reader takes a well-formed frame whose embedded CRC is wrong, the step does
\* what it would do for the same frame with the right CRC: an event frame
\* goes to the event callback with the same id, payload and timestamp, a
\* sample frame to the sample callback, a response goes into the slot and on
\* to the signal, and cmd_exec reads the same status from the slot.
C16_BadCrcStillDelivered ==
    /\ [][(McuTakesPacket
             /\ ~Malformed(Head(mcu_rx), Len(Head(mcu_rx)))
             /\ parse_rsp_crc_mismatch(Head(mcu_rx), Len(Head(mcu_rx))))
          => LET pkt == Head(mcu_rx)
                 res == Len(pkt)
                 good == WithGoodCrc(pkt)
             IN  /\ mcu_classify(pkt, res) \in {"event", "response"}
                 /\ mcu_classify(pkt, res) = mcu_classify(good, res)
                 /\ mcu_classify(good, res) = "event" =>
                       /\ events' = event_update(events, ext_mcu_event_callback,
                                                 good, res)
                       /\ mcu_pc' = "loop"
                 /\ mcu_classify(good, res) = "response" =>
                       /\ mcu_pc' = "rel_lock"
                       /\ events' = events
                       /\ cmd_exec_result(0, g_mcu_rsp')
                            = cmd_exec_result(0, MemCpy(g_mcu_rsp, 0, good, res))]_vars
    /\ [][(ImuTakesPacket
             /\ ~Malformed(Head(imu_rx), Len(Head(imu_rx)))
             /\ parse_rsp_crc_mismatch(Head(imu_rx), Len(Head(imu_rx))))
          => LET pkt == Head(imu_rx)
                 res == Len(pkt)
                 good == WithGoodCrc(pkt)
             IN  /\ imu_classify(pkt, res) = "sample"
                 /\ samples' = imu_update(samples, ext_imu_data_callback,
                                          good, res)]_vars

\* a call has returned a status read from a response whose CRC is wrong, and
\* a sample with a wrong CRC has reached the sample callback
C16_Witness ==
    /\ \E c \in LifeCallers : cpc[c] = "idle" /\ ckind[c] = "status"
    /\ parse_rsp_crc_mismatch(g_mcu_rsp, RspBufSize)
    /\ Len(samples) = 1 /\ nsamples = 1

\* C17: a malformed frame is dropped.  When a reader takes a frame whose
\* declared length is below 12, or implies a payload running past the bytes
\* read or past byte 64, no callback is invoked and the loop keeps running.
C17_MalformedDropped ==
    /\ [][(McuTakesPacket /\ Malformed(Head(mcu_rx), Len(Head(mcu_rx))))
          => /\ events' = events /\ samples' = samples
             /\ mcu_thread_flag' /\ mcu_pc' = "loop"]_vars
    /\ [][(ImuTakesPacket /\ Malformed(Head(imu_rx), Len(Head(imu_rx))))
          => /\ events' = events /\ samples' = samples
             /\ imu_thread_flag' /\ imu_pc' = "loop"]_vars

\* one channel as the other channel's reader sees it: flag, thread, handle,
\* queue and callback log
McuChannel == <<mcu_thread_flag, mcu_pc, mcu_read_tid, g_mcu_dev, mcu_open,
                mcu_rx, events, g_mcu_rsp>>
ImuChannel == <<imu_thread_flag, imu_pc, imu_read_tid, g_imu_dev, imu_open,
                imu_rx, samples>>

\* C18: a fatal read error stops only the loop it happened in.  The step in
\* which a read fails clears that loop's flag and leaves the other channel's
\* flag, thread, handle and queue as they are; the thread function then
\* returns; while one reader is stopped the other still enters its read and
\* takes the frames that arrive; and a read that times out changes nothing but
\* the loop's position, which is back at the loop test.
C18_ReadErrorStopsOneLoop ==
    /\ [][(mcu_pc = "read" /\ mcu_pc' = "exiting")
          => /\ ~mcu_thread_flag'
             /\ ImuChannel' = ImuChannel
             /\ <<g_mcu_dev, mcu_open>>' = <<g_mcu_dev, mcu_open>>]_vars
    /\ [][(imu_pc = "read" /\ imu_pc' = "exiting")
          => /\ ~imu_thread_flag'
             /\ McuChannel' = McuChannel
             /\ <<g_imu_dev, imu_open>>' = <<g_imu_dev, imu_open>>]_vars
    /\ [](mcu_pc = "exiting" => ENABLED (mcu_thread_exit /\ mcu_pc' = "done"))
    /\ [](imu_pc = "exiting" => ENABLED (imu_thread_exit /\ imu_pc' = "done"))
    /\ [](mcu_pc \in {"exiting", "done"} =>
            /\ (imu_pc = "loop" /\ imu_thread_flag)
                  => ENABLED (imu_thread_loop /\ imu_pc' = "read")
            /\ (imu_pc = "read" /\ imu_rx # << >>)
                  => ENABLED imu_thread_read_packet)
    /\ [](imu_pc \in {"exiting", "done"} =>
            /\ (mcu_pc = "loop" /\ mcu_thread_flag)
                  => ENABLED (mcu_thread_loop /\ mcu_pc' = "read")
            /\ (mcu_pc = "read" /\ mcu_rx # << >>)
                  => ENABLED mcu_thread_read_packet)
    /\ [][(mcu_pc = "read" /\ mcu_pc' = "loop" /\ mcu_rx = << >>)
          => UNCHANGED <<progVars, cbVars, pureVars, appVars, syncVars, mainVars,
                         callerVars, hidVars, imuVars, g_mcu_rsp,
                         mcu_thread_flag, mcu_rx, dev_inbox, events, nevents,
                         leaked, rx_statuses>>]_vars
    /\ [][(imu_pc = "read" /\ imu_pc' = "loop" /\ imu_rx = << >>)
          => UNCHANGED <<imuRest, imu_thread_flag, imu_rx, samples,
                         nsamples>>]_vars

\* the control reader has stopped after a read error and returned, while the
\* sensor reader is in its read with a frame waiting
C18_Witness ==
    /\ mcu_pc = "done" /\ ~mcu_thread_flag
    /\ imu_thread_flag /\ imu_pc = "read" /\ imu_rx # << >>

(***************************************************************************)
(* The application registering callbacks while the reader loops run.        *)
(***************************************************************************)
\* the callbacks the application registers here: none, a, b
AppCallbacks == {NULL, 1, 2}

\* the state right after a successful viture_driver_init, before the
\* application has registered a callback
InitUnregistered ==
    /\ crc_table_initialized = TRUE
    /\ g_mcu_dev = 1 /\ g_imu_dev = 2
    /\ mcu_hid_path = TRUE /\ imu_hid_path = TRUE
    /\ lock_cmd = MutexOf(TRUE, 0)
    /\ signal_cond_cmd = CondOf(TRUE, {})
    /\ g_mcu_rsp = Zeros(RspBufSize)
    /\ mcu_read_tid = 1 /\ imu_read_tid = 1
    /\ mcu_thread_flag = TRUE /\ imu_thread_flag = TRUE
    /\ barrier_mcu = BarrierOf(TRUE, BarrierCount)
    /\ barrier_imu = BarrierOf(TRUE, BarrierCount)
    /\ ext_mcu_event_callback = NULL /\ ext_imu_data_callback = NULL
    /\ registrations = << >>
    /\ AppIdle
    /\ mcu_pc = "loop" /\ imu_pc = "loop"
    /\ main_pc = "idle" /\ main_op = "init" /\ main_ret = TRUE
    /\ cpc = [c \in Callers |-> "idle"]
    /\ cdev = [c \in Callers |-> NULL]
    /\ cdata = [c \in Callers |-> 0]
    /\ cwret = [c \in Callers |-> 0]
    /\ cresult = [c \in Callers |-> Uint(0, 0)]
    /\ ckind = [c \in Callers |-> "none"]
    /\ hid_lib = TRUE /\ mcu_open = 1 /\ imu_open = 2 /\ hid_next = 3
    /\ mcu_rx = << >> /\ imu_rx = << >> /\ dev_inbox = << >>
    /\ events = << >> /\ samples = << >>
    /\ ncalls = [c \in Callers |-> 0]
    /\ nevents = 0 /\ nsamples = 0 /\ nlife = 0
    /\ leaked = 0
    /\ cseen = [c \in Callers |-> {}]
    /\ rx_statuses = {}
    /\ PureIdle

NextCallbacks ==
    \/ \E callback \in AppCallbacks : viture_set_mcu_event_callback(callback)
    \/ \E callback \in AppCallbacks : viture_set_imu_data_callback(callback)
    \/ mcu_thread_loop
    \/ mcu_thread_read_error
    \/ mcu_thread_read_timeout
    \/ mcu_thread_read_packet
    \/ mcu_thread_exit
    \/ ImuStep
    \/ DeviceEvent(1)
    \/ DeviceSample

SpecCallbacks == InitUnregistered /\ [][NextCallbacks]_vars

\* the callback given to the last registration call for a channel, NULL when
\* there was none
RECURSIVE LastRegistered(_, _, _)
LastRegistered(log, which, i) ==
    IF i = 0 THEN NULL
    ELSE IF log[i].which = which THEN log[i].callback
         ELSE LastRegistered(log, which, i - 1)

\* C20: last registration wins.  An event frame a reader takes is delivered
\* once, to the callback given to the latest viture_set_mcu_event_callback
\* call and to no other; when that was NULL, or no call was made, the frame
\* is dropped and nothing else changes but the reader returning to its loop
\* test.  The same for sample frames and viture_set_imu_data_callback.
C20_LastRegistrationWins ==
    /\ [][(McuTakesPacket /\ mcu_classify(Head(mcu_rx), Len(Head(mcu_rx))) = "event")
          => LET last == LastRegistered(registrations, "event", Len(registrations))
             IN  IF last = NULL
                 THEN /\ mcu_pc' = "loop"
                      /\ UNCHANGED <<progVars, cbVars, pureVars, appVars, syncVars,
                                     mainVars, callerVars, hidVars, imuVars,
                                     g_mcu_rsp, mcu_thread_flag, dev_inbox,
                                     events, nevents, leaked, rx_statuses>>
                 ELSE /\ Len(events') = Len(events) + 1
                      /\ SubSeq(events', 1, Len(events)) = events
                      /\ events'[Len(events')].cb = last
                      /\ samples' = samples]_vars
    /\ [][(ImuTakesPacket /\ imu_classify(Head(imu_rx), Len(Head(imu_rx))) = "sample")
          => LET last == LastRegistered(registrations, "sample", Len(registrations))
             IN  IF last = NULL
                 THEN /\ imu_pc' = "loop"
                      /\ UNCHANGED <<imuRest, imu_thread_flag, samples,
                                     nsamples>>
                 ELSE /\ Len(samples') = Len(samples) + 1
                      /\ SubSeq(samples', 1, Len(samples)) = samples
                      /\ samples'[Len(samples')].cb = last
                      /\ events' = events]_vars

\* callback 1 was registered for events, then callback 2, and the event frame
\* that arrived went to callback 2
C20_Witness ==
    /\ registrations = <<Registration("event", 1), Registration("event", 2)>>
    /\ Len(events) = 1 /\ events[1].cb = 2

MaxHandled == 2

\* a makeFloat that copies the four bytes in the order they arrive
makeFloat_in_payload_order(data, off) ==
    <<At(data, off), At(data, off + 1), At(data, off + 2), At(data, off + 3)>>

\* makeFloat(data + off): tem[0..3] = data[3], data[2], data[1], data[0],
\* copied over the float
makeFloat(data, off) ==
    <<At(data, off + 3), At(data, off + 2), At(data, off + 1), At(data, off)>>

\* -f
FloatNeg(f) == [f EXCEPT ![4] = (f[4] + 128) % 256]

\* the 32 bits of a float, as a C uint
FloatBits(f) == Uint(f[3] + 256 * f[4], f[1] + 256 * f[2])

\* the four-byte groups sample payloads are made of here: the three of the
\* documented example and 1.0f sent most significant byte first
AngleGroups ==
    {<<170, 187, 204, 221>>, <<238, 255, 0, 17>>, <<34, 51, 68, 85>>,
     <<63, 128, 0, 0>>}
ExamplePayload == <<170, 187, 204, 221, 238, 255, 0, 17, 34, 51, 68, 85>>
\* payloads of 12 bytes, one of 13, one of 11 and the empty one
SamplePayloads ==
    {g1 \o g2 \o g3 : g1 \in AngleGroups, g2 \in AngleGroups, g3 \in AngleGroups}
    \cup {ExamplePayload \o <<1>>, SubSeq(ExamplePayload, 1, 11), << >>}

\* the application selects the glasses' sensor (--viture): use_viture_imu = true
app_use_viture_imu ==
    /\ ~imu_app.use_viture_imu
    /\ nsamples = 0
    /\ imu_app' = [imu_app EXCEPT !.use_viture_imu = TRUE]
    /\ UNCHANGED <<progVars, cbVars, pureVars, syncVars, mainVars, callerVars,
                   hidVars, imuVars, g_mcu_rsp, mcu_thread_flag, mcu_pc, mcu_rx,
                   dev_inbox, events, nevents, leaked, rx_statuses,
                   sent_mcu, sent_imu, aus_filled>>

\* default_viture_imu_data_handler(data, len, ts) with len = Len(data)
default_viture_imu_data_handler(data) ==
    /\ nsamples < MaxHandled
    /\ nsamples' = nsamples + 1
    /\ arg_data' = data
    /\ imu_app' =
          IF Len(data) < 12 THEN imu_app
          ELSE LET app == IF imu_app.use_viture_imu /\ ~imu_app.initial_offsets_set
                          THEN [imu_app EXCEPT
                                  !.initial_roll_offset = makeFloat(data, 0),
                                  !.initial_pitch_offset = makeFloat(data, 4),
                                  !.initial_yaw_offset = FloatNeg(makeFloat(data, 8)),
                                  !.initial_offsets_set = TRUE]
                          ELSE imu_app
               IN  [app EXCEPT !.viture_roll = makeFloat(data, 0),
                               !.viture_pitch = makeFloat(data, 4),
                               !.viture_yaw = FloatNeg(makeFloat(data, 8))]
    /\ UNCHANGED <<progVars, cbVars, syncVars, mainVars, callerVars, hidVars,
                   imu_pc, imu_thread_flag, imu_rx, samples,
                   g_mcu_rsp, mcu_thread_flag, mcu_pc, mcu_rx, dev_inbox, events,
                   nevents, leaked, rx_statuses,
                   arg_cmd_id, out_buf, out_total_len, parsed, exec_out, crc_out,
                   sent_mcu, sent_imu, aus_filled>>

NextSample ==
    \/ app_use_viture_imu
    \/ \E data \in SamplePayloads : default_viture_imu_data_handler(data)

SpecSample == InitRunning /\ [][NextSample]_vars

\* C21: after the handler was given a payload of at least 12 bytes, the
\* three angles hold the payload's three 4-byte groups byte-reversed in
\* memory, which as 32-bit patterns are the groups read most significant
\* byte first, the yaw with its sign bit flipped; for the documented payload
\* the bytes are DD CC BB AA, 11 00 FF EE and 55 44 33 22 (yaw: sign flipped).
C21_SampleDecoding ==
    (nsamples > 0 /\ Len(arg_data) >= 12) =>
        LET d == arg_data
        IN  /\ imu_app.viture_roll = <<d[4], d[3], d[2], d[1]>>
            /\ imu_app.viture_pitch = <<d[8], d[7], d[6], d[5]>>
            /\ imu_app.viture_yaw = <<d[12], d[11], d[10], (d[9] + 128) % 256>>
            /\ FloatBits(imu_app.viture_roll)
                 = Uint(256 * d[1] + d[2], 256 * d[3] + d[4])
            /\ FloatBits(imu_app.viture_pitch)
                 = Uint(256 * d[5] + d[6], 256 * d[7] + d[8])
            /\ FloatBits(imu_app.viture_yaw)
                 = Uint(256 * ((d[9] + 128) % 256) + d[10], 256 * d[11] + d[12])
            /\ d = ExamplePayload =>
                  /\ imu_app.viture_roll = <<221, 204, 187, 170>>
                  /\ imu_app.viture_pitch = <<17, 0, 255, 238>>
                  /\ FloatNeg(imu_app.viture_yaw) = <<85, 68, 51, 34>>

\* the handler has decoded the documented payload
C21_Witness ==
    /\ nsamples > 0 /\ arg_data = ExamplePayload
    /\ imu_app.viture_yaw = <<85, 68, 51, 162>>

(***************************************************************************)
(* The two reader loops fed with frames of every kind on either channel:    *)
(* replies, events, samples with several ids, frames carrying the other     *)
(* channel's marker or no marker, and short reads.  A read shorter than 16  *)
(* bytes that carries the channel's marker is left out: the loop would      *)
(* classify it by bytes of hid_packet that the read did not write.          *)
(***************************************************************************)
\* how many frames the device sends, both channels together
MaxSent == 2

\* a second event, id 2
EventFrameTwo == DeviceFrame(McuMagic, 2, 8, <<2>>)
\* samples with command id 0, 0x1234 and 0xFFFF
SampleFramesById ==
    [id \in {0, 4660, ParseErrId} |->
        DeviceFrame(ImuMagic, id, 9, <<170, 187, 204, 221, 238, 255, 0, 17, 34, 51, 68, 85>>)]
\* a frame whose first byte is not FF
UnmarkedFrame == [EventFrames[1] EXCEPT ![1] = 0]

\* what the device may send on the control channel: a reply, two events, a
\* sample, the first two bytes of a sample, an unmarked frame, the first 16
\* bytes of a reply and the first 17 bytes of an event
ControlFrames ==
    {ResponseFrames[1], EventFrames[1], EventFrameTwo, SampleFrame,
     SubSeq(SampleFrame, 1, 2), UnmarkedFrame,
     SubSeq(ResponseFrames[1], 1, 16), SubSeq(EventFrames[1], 1, 17)}
\* what the device may send on the sensor channel: samples with ids 1, 0,
\* 0x1234 and 0xFFFF, an event, the first two bytes of an event, an unmarked
\* frame
SensorFrames ==
    {SampleFrame, SampleFramesById[0], SampleFramesById[4660],
     SampleFramesById[ParseErrId], EventFrames[1], SubSeq(EventFrames[1], 1, 2),
     UnmarkedFrame}

\* the device sends a frame on the control channel
DeviceSendControl(frame) ==
    /\ nevents + nsamples < MaxSent
    /\ mcu_open # 0
    /\ nevents' = nevents + 1
    /\ mcu_rx' = Append(mcu_rx, frame)
    /\ sent_mcu' = Append(sent_mcu, frame)
    /\ UNCHANGED <<progVars, cbVars, pureVars, syncVars, mainVars, callerVars,
                   hidVars, imuVars, g_mcu_rsp, mcu_thread_flag, mcu_pc,
                   dev_inbox, events, leaked, rx_statuses, imu_app, sent_imu,
                   aus_filled>>

\* the device sends a frame on the sensor channel
DeviceSendSensor(frame) ==
    /\ nevents + nsamples < MaxSent
    /\ imu_open # 0
    /\ nsamples' = nsamples + 1
    /\ imu_rx' = Append(imu_rx, frame)
    /\ sent_imu' = Append(sent_imu, frame)
    /\ UNCHANGED <<progVars, cbVars, pureVars, syncVars, mainVars, callerVars,
                   hidVars, imu_pc, imu_thread_flag, samples, g_mcu_rsp,
                   mcu_thread_flag, mcu_pc, mcu_rx, dev_inbox, events, nevents,
                   leaked, rx_statuses, imu_app, sent_mcu, aus_filled>>

NextFrames ==
    \/ \E c \in LifeCallers : CallerStep(c)
    \/ McuStep
    \/ ImuStep
    \/ \E frame \in ControlFrames : DeviceSendControl(frame)
    \/ \E frame \in SensorFrames : DeviceSendSensor(frame)

SpecFrames == InitRunning /\ [][NextFrames]_vars

\* the packet at the head of a queue carries the control / sensor marker
HasMcuMagic(pkt) == At(pkt, 0) = 255 /\ At(pkt, 1) = McuMagic
HasImuMagic(pkt) == At(pkt, 0) = 255 /\ At(pkt, 1) = ImuMagic

\* C22: when the control reader takes a frame with marker FF FE and command
\* id 0, the frame's bytes are in the response slot afterwards (the rest of
\* the slot as before), the event callback is not invoked, and the loop goes
\* on to cmd_release, which signals the condition variable once: the reader
\* enters cmd_release only from such a frame, signals only from there, and
\* the signal wakes one waiter if there is one.
C22_ResponseToSlotAndSignal ==
    /\ [][(McuTakesPacket /\ HasMcuMagic(Head(mcu_rx)) /\ U16(Head(mcu_rx), 14) = 0)
          => LET pkt == Head(mcu_rx)
             IN  /\ SubSeq(g_mcu_rsp', 1, Len(pkt)) = pkt
                 /\ SubSeq(g_mcu_rsp', Len(pkt) + 1, RspBufSize)
                      = SubSeq(g_mcu_rsp, Len(pkt) + 1, RspBufSize)
                 /\ events' = events /\ samples' = samples
                 /\ signal_cond_cmd' = signal_cond_cmd
                 /\ mcu_pc' = "rel_lock"]_vars
    /\ [][(mcu_pc' = "rel_lock" /\ mcu_pc # "rel_lock")
          => (McuTakesPacket /\ HasMcuMagic(Head(mcu_rx))
              /\ U16(Head(mcu_rx), 14) = 0)]_vars
    /\ [][(mcu_pc = "rel_lock" /\ mcu_pc' # "rel_lock")
          => (mcu_pc' = "rel_signal" /\ events' = events
              /\ signal_cond_cmd' = signal_cond_cmd)]_vars
    /\ [][(mcu_pc' = "rel_signal") => mcu_pc \in {"rel_lock", "rel_signal"}]_vars
    /\ [][(mcu_pc = "rel_signal" /\ mcu_pc' # "rel_signal")
          => /\ mcu_pc' = "loop" /\ events' = events
             /\ IF signal_cond_cmd.waiters = {}
                THEN signal_cond_cmd' = signal_cond_cmd
                ELSE \E w \in signal_cond_cmd.waiters :
                        /\ signal_cond_cmd'.waiters = signal_cond_cmd.waiters \ {w}
                        /\ cpc'[w] = "reacquire" /\ cwret'[w] = 0]_vars

\* a reply the device sent has been copied into the slot and its signal has
\* woken the waiting call; no event callback ran
C22_Witness ==
    /\ sent_mcu = <<ResponseFrames[1]>> /\ mcu_rx = << >>
    /\ SubSeq(g_mcu_rsp, 1, PacketSize) = ResponseFrames[1]
    /\ mcu_pc = "loop"
    /\ \E c \in LifeCallers : cpc[c] = "reacquire" /\ cwret[c] = 0
    /\ events = << >>

\* C23: a frame of at least two bytes whose first two bytes are not the
\* channel's marker is not classified: taking it invokes no callback, leaves
\* the response slot and the condition variable alone and sends the loop back
\* to its top, not to cmd_release; so for a sample-marked frame on the control
\* channel and a control-marked frame on the sensor channel.
C23_MagicGating ==
    /\ [][(McuTakesPacket /\ Len(Head(mcu_rx)) >= 2 /\ ~HasMcuMagic(Head(mcu_rx)))
          => /\ events' = events /\ samples' = samples
             /\ g_mcu_rsp' = g_mcu_rsp
             /\ signal_cond_cmd' = signal_cond_cmd
             /\ mcu_pc' = "loop"]_vars
    /\ [][(ImuTakesPacket /\ Len(Head(imu_rx)) >= 2 /\ ~HasImuMagic(Head(imu_rx)))
          => /\ events' = events /\ samples' = samples
             /\ g_mcu_rsp' = g_mcu_rsp
             /\ signal_cond_cmd' = signal_cond_cmd
             /\ imu_pc' = "loop"]_vars

\* the control reader has taken a sample-marked frame and the sensor reader a
\* control-marked frame: no callback ran, the slot is untouched
C23_Witness ==
    /\ sent_mcu = <<SampleFrame>> /\ mcu_rx = << >> /\ mcu_pc = "loop"
    /\ sent_imu = <<EventFrames[1]>> /\ imu_rx = << >> /\ imu_pc = "loop"
    /\ events = << >> /\ samples = << >>
    /\ g_mcu_rsp = Zeros(RspBufSize)

\* C24 as stated: a read on the control channel that returns fewer than 18
\* bytes is not classified: taking it does not write the response slot, does
\* not lead to the signal and invokes no callback.
C24_ShortReadNotClassified ==
    [][(McuTakesPacket /\ Len(Head(mcu_rx)) < HeaderLen)
       => /\ g_mcu_rsp' = g_mcu_rsp
          /\ events' = events
          /\ mcu_pc' = "loop"]_vars

\* C25 as stated: every well-formed frame with the sensor marker goes to the
\* registered sample callback, once, with its payload, payload length and the
\* timestamp of bytes [6,10), whatever its command id.
C25_EverySampleForwarded ==
    [][(ImuTakesPacket /\ HasImuMagic(Head(imu_rx))
          /\ ~Malformed(Head(imu_rx), Len(Head(imu_rx)))
          /\ ext_imu_data_callback # NULL)
       => LET pkt == Head(imu_rx)
              n == U16(pkt, 4) - MinLenField
          IN  /\ Len(samples') = Len(samples) + 1
              /\ SubSeq(samples', 1, Len(samples)) = samples
              /\ samples'[Len(samples')].len = n
              /\ samples'[Len(samples')].data = SubSeq(pkt, HeaderLen + 1, HeaderLen + n)
              /\ samples'[Len(samples')].ts = U32(pkt, 6)]_vars

(***************************************************************************)
(* The response slot and the command mutex.                                 *)
(***************************************************************************)
\* C26 as stated: every access to g_mcu_rsp is made by a thread that holds
\* lock_cmd: the reader copies a reply into the slot holding the mutex, and
\* cmd_exec parses the slot holding the mutex.
C26_SlotAccessUnderMutex ==
    /\ [][(McuTakesPacket /\ HasMcuMagic(Head(mcu_rx)) /\ U16(Head(mcu_rx), 14) = 0)
          => lock_cmd.owner = McuOwner]_vars
    /\ [][\A c \in Callers :
             (cpc[c] = "after_wait" /\ cpc'[c] = "idle" /\ cwret[c] # ETIMEDOUT)
                => lock_cmd.owner = c]_vars

\* two different callers made one call each, nobody else called; A's call
\* timed out, B's returned a status, and the one request the device has not
\* answered is B's (the two requests carry different data bytes)
LateReplyTaken(A, B) ==
    /\ A # B
    /\ \A c \in Callers : ncalls[c] = (IF c \in {A, B} THEN 1 ELSE 0)
    /\ cpc[A] = "idle" /\ ckind[A] = "timeout"
    /\ cpc[B] = "idle" /\ ckind[B] = "status"
    /\ cdata[A] # cdata[B]
    /\ Len(dev_inbox) = 1 /\ At(Head(dev_inbox), HeaderLen) = cdata[B]

\* C28: a reply is copied into the response slot whoever is or is not
\* waiting, its signal wakes a call that is waiting, whichever request the
\* reply answers, and the woken call returns the status byte found in the
\* slot; so when A's call timed out and B's returned a status while only A's
\* request was answered, B returned the status of the reply to A.
C28_LateReplyRace ==
    /\ [][(McuTakesPacket /\ HasMcuMagic(Head(mcu_rx)) /\ U16(Head(mcu_rx), 14) = 0)
          => /\ SubSeq(g_mcu_rsp', 1, Len(Head(mcu_rx))) = Head(mcu_rx)
             /\ mcu_pc' = "rel_lock"]_vars
    /\ [][(mcu_pc = "rel_signal" /\ mcu_pc' = "loop" /\ signal_cond_cmd.waiters # {})
          => \E w \in signal_cond_cmd.waiters :
                cpc'[w] = "reacquire" /\ cwret'[w] = 0]_vars
    /\ [][\A c \in Callers :
             (cpc[c] = "after_wait" /\ cpc'[c] = "idle" /\ cwret[c] = 0
              /\ U16(g_mcu_rsp, 4) > MinLenField)
                => (ckind'[c] = "status"
                    /\ cresult'[c] = Uint(0, At(g_mcu_rsp, HeaderLen)))]_vars
    /\ [](\A A \in Callers, B \in Callers :
            LateReplyTaken(A, B) => cresult[B] = Uint(0, cdata[A]))

\* A sent 1 and timed out, B sent 0 and returned 1: the status of the reply to
\* A's request, B's own request being still unanswered
C28_Witness ==
    \E A \in Callers, B \in Callers :
        /\ LateReplyTaken(A, B)
        /\ cdata[A] = 1 /\ cdata[B] = 0
        /\ cresult[B] = Uint(0, 1)

(***************************************************************************)
(* Shutdown while the reader loops are inside their read.                   *)
(***************************************************************************)
\* viture_driver_close on a running driver, no scheduling assumed
SpecClose == InitRunning /\ [][NextClose]_vars

\* C27 as stated: a loop whose flag was cleared by stopReadMcu / stopReadImu
\* while it was inside hid_read_timeout does nothing with what that read
\* returns: no callback, no write of the response slot, no way on to the
\* signal.
C27_NoProcessingAfterStop ==
    /\ [][(McuTakesPacket /\ ~mcu_thread_flag)
          => /\ events' = events
             /\ g_mcu_rsp' = g_mcu_rsp
             /\ mcu_pc' # "rel_lock"]_vars
    /\ [][(ImuTakesPacket /\ ~imu_thread_flag)
          => samples' = samples]_vars

(***************************************************************************)
(* Order of processing on one channel.                                      *)
(***************************************************************************)
\* the frames a reader has taken so far: those sent, less those still queued
Taken(sent, queue) == SubSeq(sent, 1, Len(sent) - Len(queue))

IsDeliveredEvent(pkt) == mcu_classify(pkt, Len(pkt)) = "event"
IsReply(pkt) == mcu_classify(pkt, Len(pkt)) = "response"
IsDeliveredSample(pkt) == imu_classify(pkt, Len(pkt)) = "sample"

\* C29: each reader takes the frames of its channel one at a time in the
\* order the device sent them (a step takes the head of the queue, the queue
\* is the tail of what was sent), and the callback invocations are those of
\* the delivered frames among the taken ones, in that order: the events, the
\* samples; the response slot holds the last reply taken, so slot updates and
\* event callbacks follow the order of the frames too.  One step of one
\* thread delivers one frame: no two invocations of a channel overlap.
C29_PerChannelOrder ==
    /\ [](/\ Len(mcu_rx) <= Len(sent_mcu)
          /\ mcu_rx = SubSeq(sent_mcu, Len(sent_mcu) - Len(mcu_rx) + 1, Len(sent_mcu))
          /\ Len(imu_rx) <= Len(sent_imu)
          /\ imu_rx = SubSeq(sent_imu, Len(sent_imu) - Len(imu_rx) + 1, Len(sent_imu)))
    /\ [](LET ev == SelectSeq(Taken(sent_mcu, mcu_rx), IsDeliveredEvent)
          IN  /\ Len(events) = Len(ev)
              /\ \A i \in 1..Len(ev) :
                    /\ events[i].id = U16(ev[i], 14)
                    /\ events[i].ts = U32(ev[i], 6))
    /\ [](LET sm == SelectSeq(Taken(sent_imu, imu_rx), IsDeliveredSample)
          IN  /\ Len(samples) = Len(sm)
              /\ \A i \in 1..Len(sm) :
                    /\ samples[i].ts = U32(sm[i], 6)
                    /\ samples[i].data = parse_rsp(sm[i], Len(sm[i])).data)
    /\ [](LET rp == SelectSeq(Taken(sent_mcu, mcu_rx), IsReply)
          IN  IF rp = << >> THEN g_mcu_rsp = Zeros(RspBufSize)
              ELSE SubSeq(g_mcu_rsp, 1, Len(rp[Len(rp)])) = rp[Len(rp)])
    /\ [][/\ Len(events') <= Len(events) + 1
          /\ Len(samples') <= Len(samples) + 1
          /\ (events' # events => McuTakesPacket)
          /\ (samples' # samples => ImuTakesPacket)]_vars

\* the device sent event 2 and then event 1; both were delivered, in that order
C29_Witness ==
    /\ sent_mcu = <<EventFrameTwo, EventFrames[1]>> /\ mcu_rx = << >>
    /\ Len(events) = 2 /\ events[1].id = 2 /\ events[2].id = 1

(***************************************************************************)
(* The command mutex on the exit paths of cmd_exec.                         *)
(***************************************************************************)
\* the lifecycle of FairSpecClose with a device that may also answer with an
\* empty payload: every exit path of cmd_exec is taken
NextExits ==
    \/ NextClose
    \/ DeviceRespondEmpty

FairSpecExits ==
    /\ InitRunning /\ [][NextExits]_vars
    /\ \A c \in LifeCallers : WF_vars(CallerProgress(c))
    /\ WF_vars(McuStep)
    /\ WF_vars(ImuStep)
    /\ WF_vars(CloseStep)

\* the exit paths of cmd_exec
ExitKinds == {"notinit", "write", "timeout", "empty", "status"}

\* C30: whenever cmd_exec has returned, by whichever exit path, the calling
\* thread does not hold lock_cmd; and a reader that has entered cmd_release
\* eventually gets the mutex and goes on to the signal.
C30_MutexReleasedOnEveryExit ==
    /\ [](\A c \in Callers :
            (cpc[c] = "idle" /\ ckind[c] \in ExitKinds) => lock_cmd.owner # c)
    /\ [][\A c \in Callers :
            (cpc[c] # "idle" /\ cpc'[c] = "idle")
               => (ckind'[c] \in ExitKinds /\ lock_cmd'.owner # c)]_vars
    /\ (mcu_pc = "rel_lock") ~> (mcu_pc = "rel_signal")

\* a call has returned through the timeout exit and the reader, in
\* cmd_release for a late reply, holds the mutex
C30_Witness ==
    /\ \E c \in LifeCallers : cpc[c] = "idle" /\ ckind[c] = "timeout"
    /\ mcu_pc = "rel_signal" /\ lock_cmd.owner = McuOwner

(***************************************************************************)
(* cmd_exec's hid_write by the value it returns.                            *)
(***************************************************************************)
\* what hid_write(dev, cmd_buf, 64) may return: -1 on an error, else the
\* number of bytes written
HidWriteReturns == {-1, 0, PacketSize - 1, PacketSize}

\* a cmd_exec that takes only a negative return for a failure
cmd_exec_write_failing_on_error_only(c, bytes_written) ==
    IF bytes_written < 0
    THEN cmd_exec_write_fail(c)
    ELSE cmd_exec_write_ok(c)

\* int bytes_written = hid_write(...);
\* if (bytes_written < 0 || (ushort)bytes_written != cmd_total_len) return ...
cmd_exec_write(c, bytes_written) ==
    IF bytes_written < 0 \/ bytes_written % 65536 # RequestFrame(c).total_len
    THEN cmd_exec_write_fail(c)
    ELSE cmd_exec_write_ok(c)

\* cmd_exec, the write taken by its return value
CallerStepWrite(c) ==
    \/ \E enable \in BOOLEAN : set_imu(c, enable)
    \/ \E bytes_written \in HidWriteReturns : cmd_exec_write(c, bytes_written)
    \/ cmd_wait_lock(c)
    \/ cmd_wait_timedwait(c)
    \/ cmd_wait_timeout(c)
    \/ cmd_wait_return(c)
    \/ cmd_exec_finish(c)

NextWrite ==
    \/ \E c \in Callers : CallerStepWrite(c)
    \/ McuStep
    \/ DeviceRespond

SpecWrite == InitRunning /\ [][NextWrite]_vars

\* C31: a transport write failure ends the command at once.  When hid_write
\* returns a negative value or a byte count other than 64, the same step
\* returns 0xFFFFFFFF from cmd_exec: the call never enters cmd_wait (it is not
\* among the waiters of the condition variable, the mutex is as before), the
\* response slot is as before, whatever it holds, and the device has received
\* nothing; a call gets to cmd_wait only from a write that returned 64.
C31_WriteFailureReturnsAtOnce ==
    /\ [][\A c \in Callers : \A n \in HidWriteReturns \ {PacketSize} :
            (cpc[c] = "write" /\ cmd_exec_write(c, n))
               => /\ cpc'[c] = "idle"
                  /\ cresult'[c] = Uint(65535, 65535)
                  /\ ckind'[c] = "write"
                  /\ lock_cmd' = lock_cmd
                  /\ signal_cond_cmd' = signal_cond_cmd
                  /\ c \notin signal_cond_cmd'.waiters
                  /\ g_mcu_rsp' = g_mcu_rsp
                  /\ dev_inbox' = dev_inbox]_vars
    /\ [][\A c \in Callers :
            (cpc[c] = "write" /\ cpc'[c] = "wait_lock")
               => cmd_exec_write(c, PacketSize)]_vars
    /\ [](\A c \in Callers :
            (cpc[c] = "idle" /\ ckind[c] = "write")
               => cresult[c] = Uint(65535, 65535))

\* one call has returned 0xFFFFFFFF through the write-failure exit while the
\* response slot holds a reply with status 1 and the other call is blocked in
\* its wait
C31_Witness ==
    \E c \in Callers, d \in Callers :
        /\ cpc[c] = "idle" /\ ckind[c] = "write"
        /\ cresult[c] = Uint(65535, 65535)
        /\ At(g_mcu_rsp, HeaderLen) = 1 /\ U16(g_mcu_rsp, 4) > MinLenField
        /\ cpc[d] = "blocked" /\ d \in signal_cond_cmd.waiters

(***************************************************************************)
(* init_crc_table step by step: viture_driver_init from hid_init to the     *)
(* path lookups with the table's loop taken one entry at a time, next to    *)
(* the reader threads and one application thread.                           *)
(***************************************************************************)
\* viture_driver_init: hid_init()
viture_driver_init_hid(hid_ok) ==
    /\ main_pc = "idle" /\ nlife < MaxLifeOps
    /\ nlife' = nlife + 1
    /\ main_op' = "init"
    /\ IF hid_ok
       THEN /\ hid_lib' = TRUE /\ main_pc' = "crc_table"
            /\ UNCHANGED main_ret
       ELSE /\ main_ret' = FALSE /\ main_pc' = "idle"
            /\ UNCHANGED hid_lib
    /\ UNCHANGED <<lifeRest, mcuSide, imuSide, syncVars, crc_table_initialized,
                   mcu_hid_path, imu_hid_path, hid_next, leaked>>

\* init_crc_table: if (crc_table_initialized) return;
init_crc_table_enter ==
    /\ main_pc = "crc_table"
    /\ main_pc' = IF crc_table_initialized THEN "lookup" ELSE "crc_fill"
    /\ UNCHANGED <<lifeRest, mcuSide, imuSide, syncVars, crc_table_initialized,
                   mcu_hid_path, imu_hid_path, main_op, main_ret, nlife,
                   hid_lib, hid_next, leaked>>

\* init_crc_table: one round of the loop, aus_CrcTable[i] = c
init_crc_table_fill ==
    /\ main_pc = "crc_fill"
    /\ aus_filled < CrcTableSize
    /\ aus_filled' = aus_filled + 1
    /\ UNCHANGED <<cbVars, pureVars, imu_app, sent_mcu, sent_imu, callerVars,
                   g_mcu_rsp, dev_inbox, events, nevents, samples, nsamples,
                   rx_statuses, mcuSide, imuSide, syncVars,
                   crc_table_initialized, mcu_hid_path, imu_hid_path, mainVars,
                   hid_lib, hid_next, leaked>>

\* a loop that may end, and set the flag, before the last entry is written
init_crc_table_done_before_filled ==
    /\ main_pc = "crc_fill"
    /\ crc_table_initialized' = TRUE
    /\ main_pc' = "lookup"
    /\ UNCHANGED <<lifeRest, mcuSide, imuSide, syncVars, mcu_hid_path,
                   imu_hid_path, main_op, main_ret, nlife, hid_lib, hid_next,
                   leaked>>

\* init_crc_table: the loop has ended; crc_table_initialized = true
init_crc_table_done ==
    /\ main_pc = "crc_fill"
    /\ aus_filled = CrcTableSize
    /\ crc_table_initialized' = TRUE
    /\ main_pc' = "lookup"
    /\ UNCHANGED <<lifeRest, mcuSide, imuSide, syncVars, mcu_hid_path,
                   imu_hid_path, main_op, main_ret, nlife, hid_lib, hid_next,
                   leaked>>

\* viture_driver_init: the two path lookups and the two "not found" exits
viture_driver_init_lookup(mcu_found, imu_found) ==
    /\ main_pc = "lookup"
    /\ IF ~mcu_found
       THEN /\ mcu_hid_path' = FALSE
            /\ imu_hid_path' = imu_found
            /\ hid_lib' = FALSE
            /\ main_ret' = FALSE /\ main_pc' = "idle"
       ELSE IF ~imu_found
       THEN /\ mcu_hid_path' = FALSE
            /\ imu_hid_path' = FALSE
            /\ hid_lib' = FALSE
            /\ main_ret' = FALSE /\ main_pc' = "idle"
       ELSE /\ mcu_hid_path' = TRUE
            /\ imu_hid_path' = TRUE
            /\ hid_lib' = TRUE
            /\ main_pc' = "mcu_init"
            /\ UNCHANGED main_ret
    /\ UNCHANGED <<lifeRest, mcuSide, imuSide, syncVars, crc_table_initialized,
                   main_op, nlife, hid_next, leaked>>

InitStepTable ==
    \/ \E hid_ok \in BOOLEAN : viture_driver_init_hid(hid_ok)
    \/ init_crc_table_enter
    \/ init_crc_table_fill
    \/ init_crc_table_done
    \/ \E mcu_found, imu_found \in BOOLEAN :
          viture_driver_init_lookup(mcu_found, imu_found)
    \/ \E opened \in BOOLEAN : native_mcu_init_open(opened)
    \/ native_mcu_init_sync
    \/ \E created \in BOOLEAN : startReadMcu(created)
    \/ startReadMcu_barrier_return
    \/ \E opened \in BOOLEAN : native_imu_init_open(opened)
    \/ \E created \in BOOLEAN : startReadImu(created)
    \/ startReadImu_barrier_return

NextTable ==
    \/ InitStepTable
    \/ viture_driver_close_begin
    \/ CloseStep
    \/ \E c \in LifeCallers : CallerStep(c)
    \/ \E c \in LifeCallers : cmd_wait_destroyed(c)
    \/ mcu_thread_arrive
    \/ mcu_thread_started
    \/ McuStep
    \/ imu_thread_arrive
    \/ imu_thread_started
    \/ ImuStep
    \/ DeviceStep
    \/ DeviceSample

SpecTable == Init /\ [][NextTable]_vars

\* parse_rsp on buf calls cmd_crc: the length is not 0 and the length field
\* is at least 12
ParseComputesCrc(buf, total_rsp_len) ==
    total_rsp_len # 0 /\ U16(buf, 4) >= MinLenField
\* the steps in which a checksum is computed: cmd_build in cmd_exec, parse_rsp
\* in cmd_exec, parse_rsp in mcu_thread (an event), parse_rsp in imu_thread
CallerBuilds(c) == cpc[c] = "idle" /\ cpc'[c] = "write"
CallerParses(c) ==
    /\ cpc[c] = "after_wait" /\ cpc'[c] = "idle" /\ cwret[c] # ETIMEDOUT
    /\ ParseComputesCrc(g_mcu_rsp, RspBufSize)
McuParses ==
    /\ McuTakesPacket /\ HasMcuMagic(Head(mcu_rx)) /\ U16(Head(mcu_rx), 14) # 0
    /\ ParseComputesCrc(Head(mcu_rx), Len(Head(mcu_rx)))
ImuParses ==
    /\ ImuTakesPacket /\ HasImuMagic(Head(imu_rx))
    /\ ParseComputesCrc(Head(imu_rx), Len(Head(imu_rx)))

\* C32: with one thread calling viture_driver_init, in every interleaving
\* with the reader threads and a command caller: every checksum is computed
\* with all 256 entries of the table written and the flag set (so cmd_crc's
\* own call of init_crc_table never runs); the flag is set only on a complete
\* table; entries are written one after the other by init_crc_table's loop
\* alone, before the flag is set, and nothing of a complete table changes;
\* while the loop runs no reader thread exists and every command is refused.
C32_TableInitSafe ==
    /\ [][((\E c \in Callers : CallerBuilds(c) \/ CallerParses(c))
           \/ McuParses \/ ImuParses)
          => (crc_table_initialized /\ aus_filled = CrcTableSize)]_vars
    /\ [](crc_table_initialized => aus_filled = CrcTableSize)
    /\ [][aus_filled' # aus_filled
          => /\ main_pc = "crc_fill" /\ ~crc_table_initialized
             /\ aus_filled < CrcTableSize /\ aus_filled' = aus_filled + 1]_vars
    /\ [][crc_table_initialized => crc_table_initialized']_vars
    /\ []((main_pc \in {"crc_table", "crc_fill"} /\ ~crc_table_initialized)
          => /\ mcu_pc = "none" /\ imu_pc = "none"
             /\ g_mcu_dev = NULL /\ g_imu_dev = NULL
             /\ \A c \in Callers : cpc[c] = "idle")

\* after the one viture_driver_init, whose loop filled the table, the
\* application thread has built a request frame and the control reader has
\* parsed an event frame
C32_Witness ==
    /\ nlife = 1 /\ main_op = "init" /\ main_ret
    /\ crc_table_initialized /\ aus_filled = CrcTableSize
    /\ \E c \in LifeCallers : cpc[c] = "write"
    /\ nevents = 1 /\ mcu_rx = << >> /\ mcu_pc = "loop"

(***************************************************************************)
(* Commands on a driver whose control channel is not open.                  *)
(***************************************************************************)
\* thread c calls set_imu in this step
CallStarts(c) == cpc[c] = "idle" /\ ncalls'[c] = ncalls[c] + 1

\* C33: a command issued while g_mcu_dev is NULL (before viture_driver_init,
\* after one that failed, after viture_driver_close) is rejected in the step
\* of the call: it returns 0xFFFFFFFD, the device receives nothing, no handle,
\* queue, mutex, condition variable, response slot, thread or callback log
\* changes, and the call does not wait; and 0xFFFFFFFD through this exit is
\* returned only when g_mcu_dev was NULL.
C33_RejectedWhenNotOpen ==
    /\ [][\A c \in Callers :
            (CallStarts(c) /\ g_mcu_dev = NULL)
               => /\ cpc'[c] = "idle"
                  /\ cresult'[c] = Uint(65535, 65533)
                  /\ ckind'[c] = "notinit"
                  /\ c \notin signal_cond_cmd'.waiters
                  /\ UNCHANGED <<progVars, syncVars, hidVars, mainVars,
                                 dev_inbox, mcu_rx, imu_rx, g_mcu_rsp,
                                 mcu_pc, imu_pc, mcu_thread_flag,
                                 imu_thread_flag, events, samples>>]_vars
    /\ [][\A c \in Callers :
            (CallStarts(c) /\ ckind'[c] = "notinit" /\ cpc'[c] = "idle")
               => g_mcu_dev = NULL]_vars
    /\ [](\A c \in Callers :
            (cpc[c] = "idle" /\ ckind[c] = "notinit")
               => cresult[c] = Uint(65535, 65533))

\* viture_driver_close has returned on a driver that had been initialised;
\* the application thread's call was rejected with 0xFFFFFFFD and the device
\* has received nothing
C33_Witness ==
    /\ main_op = "close" /\ main_pc = "idle" /\ nlife = MaxLifeOps
    /\ g_mcu_dev = NULL /\ mcu_open = 0 /\ hid_next > 1
    /\ \E c \in LifeCallers :
          /\ cpc[c] = "idle" /\ ncalls[c] = 1 /\ ckind[c] = "notinit"
          /\ cresult[c] = Uint(65535, 65533)
    /\ dev_inbox = << >>

(***************************************************************************)
(* Transport calls and hid_close.                                           *)
(***************************************************************************)
\* thread c calls hid_write in this step (whatever it returns)
HidWriteCalled(c) == cpc[c] = "write" /\ cpc'[c] # "write"

\* C34 as stated: no transport call is made on a closed handle.  Every
\* hid_write of cmd_exec is made on the control handle that is open at that
\* moment, and a reader thread is inside hid_read_timeout only while its
\* channel's handle is open.
C34_NoTransportCallOnClosedHandle ==
    /\ [][\A c \in Callers : HidWriteCalled(c) => cdev[c] = mcu_open]_vars
    /\ [](mcu_pc = "read" => (mcu_open # 0 /\ g_mcu_dev = mcu_open))
    /\ [](imu_pc = "read" => (imu_open # 0 /\ g_imu_dev = imu_open))

\* C34, the readers' half alone, which the code keeps
ReadersReadOpenHandles ==
    /\ mcu_pc = "read" => (mcu_open # 0 /\ g_mcu_dev = mcu_open)
    /\ imu_pc = "read" => (imu_open # 0 /\ g_imu_dev = imu_open)

(***************************************************************************)
(* Destruction of lock_cmd and signal_cond_cmd.                             *)
(***************************************************************************)
\* pthread_mutex_destroy(&lock_cmd) / pthread_cond_destroy(&signal_cond_cmd)
\* is called in this step
MutexDestroyed == main_pc = "mcu_close" /\ main_pc' = "cond_destroy"
CondDestroyed == main_pc = "cond_destroy" /\ main_pc' = "unwind"
\* thread c is about to enter cmd_wait or inside it
InCmdWait(c) == cpc[c] \in {"wait_lock", "wait_enter", "blocked", "reacquire"}
\* the control reader is inside cmd_release
InCmdRelease == mcu_pc \in {"rel_lock", "rel_signal"}

\* C35 as stated: lock_cmd and signal_cond_cmd are destroyed only when no
\* cmd_exec call is about to enter or inside cmd_wait and the control reader
\* is not inside cmd_release.
C35_NeverDestroyedInUse ==
    [][(MutexDestroyed \/ CondDestroyed)
       => /\ \A c \in Callers : ~InCmdWait(c)
          /\ ~InCmdRelease]_vars

\* C35, the reader's half alone, which the code keeps
ReaderOutsideReleaseAtDestroy ==
    [][(MutexDestroyed \/ CondDestroyed) => ~InCmdRelease]_vars

(***************************************************************************)
(* Which frame a returned status comes from.                                *)
(***************************************************************************)
\* C36 as stated, the wait taken at its widest (from the call's write to the
\* end of its wait): a call that has returned a device status does so because
\* a response frame was received during its wait; a response frame received
\* while the call was not waiting (before it was made, or before its write)
\* never makes it return a device status.
C36_StatusOnlyFromFrameDuringWait ==
    \A c \in Callers :
        (cpc[c] = "idle" /\ ckind[c] = "status") => cseen[c] # {}

\* the frames the control reader has classified as responses, in order
RepliesTaken == SelectSeq(Taken(sent_mcu, mcu_rx), IsReply)
\* cmd_exec, woken, parses the slot and returns in this step
CallerExtracts(c) ==
    cpc[c] = "after_wait" /\ cpc'[c] = "idle" /\ cwret[c] # ETIMEDOUT

\* C37 as stated: what cmd_exec extracts from the slot lies within the frame
\* most recently classified as a response.  When a woken call parses a
\* non-empty payload, a response frame has been taken and the status byte and
\* every payload byte (offsets 18 .. 18 + length - 1) are within the bytes
\* that frame's read returned, also when the read was shorter than 64 bytes.
C37_ExtractedFromLatestResponse ==
    [][\A c \in Callers :
         (CallerExtracts(c) /\ parse_rsp(g_mcu_rsp, RspBufSize).data_len > 0)
            => /\ RepliesTaken # << >>
               /\ HeaderLen + parse_rsp(g_mcu_rsp, RspBufSize).data_len
                     <= Len(RepliesTaken[Len(RepliesTaken)])]_vars

\* C37 for reads of a full packet alone, which the code keeps
ExtractedFromLatestFullResponse ==
    [][\A c \in Callers :
         (/\ CallerExtracts(c) /\ parse_rsp(g_mcu_rsp, RspBufSize).data_len > 0
          /\ \A i \in 1..Len(RepliesTaken) : Len(RepliesTaken[i]) = PacketSize)
            => /\ RepliesTaken # << >>
               /\ HeaderLen + parse_rsp(g_mcu_rsp, RspBufSize).data_len
                     <= Len(RepliesTaken[Len(RepliesTaken)])]_vars

(***************************************************************************)
(* viture_driver_init on a driver that is already initialised.              *)
(***************************************************************************)
\* viture_driver_init is called in this step, both channels being open
InitCalledInitialised ==
    /\ main_pc = "idle" /\ nlife' = nlife + 1 /\ main_op' = "init"
    /\ registrations' = registrations
    /\ g_mcu_dev # NULL /\ g_imu_dev # NULL
\* the lifecycle thread takes its step of native_mcu_init / native_imu_init
\* with the channel already open
McuAlreadyInitialised ==
    main_pc = "mcu_init" /\ main_pc' # "mcu_init" /\ g_mcu_dev # NULL
ImuAlreadyInitialised ==
    main_pc = "imu_init" /\ main_pc' # "imu_init" /\ g_imu_dev # NULL
\* the handles and the reader threads are left as they are
HandlesAndThreadsUnchanged ==
    UNCHANGED <<g_mcu_dev, g_imu_dev, mcu_open, imu_open, hid_next,
                mcu_read_tid, imu_read_tid, mcu_pc, imu_pc, mcu_thread_flag,
                imu_thread_flag, barrier_mcu, barrier_imu>>

\* C38 without the return value: a viture_driver_init on an initialised
\* driver opens no handle and starts no thread (holds under Spec)
SecondInitOpensAndStartsNothing ==
    /\ [][InitCalledInitialised => HandlesAndThreadsUnchanged]_vars
    /\ [][McuAlreadyInitialised
          => (main_pc' = "imu_init" /\ HandlesAndThreadsUnchanged)]_vars
    /\ [][ImuAlreadyInitialised
          => (main_pc' = "idle" /\ main_ret' /\ HandlesAndThreadsUnchanged)]_vars

\* a reader thread is created only when its channel has none.  Fails under
\* Spec: a reader that left its loop on a read error is not joined by
\* stopReadMcu, and the next viture_driver_init creates another one.
ReaderCreatedOnlyWhenChannelHasNone ==
    /\ [][(mcu_pc' = "start" /\ mcu_pc # "start") => mcu_pc = "none"]_vars
    /\ [][(imu_pc' = "start" /\ imu_pc # "start") => imu_pc = "none"]_vars

\* C38 as stated: viture_driver_init called on an initialised driver returns
\* true (it does not return false at its checks before native_mcu_init, and
\* goes through native_mcu_init and native_imu_init to return true), opens
\* no second handle and starts no second reader thread; a reader thread is
\* created only when its channel has none, so each channel has at most one.
C38_InitIdempotent ==
    /\ [][InitCalledInitialised
          => (main_pc' = "mcu_init" /\ HandlesAndThreadsUnchanged)]_vars
    /\ [][McuAlreadyInitialised
          => (main_pc' = "imu_init" /\ HandlesAndThreadsUnchanged)]_vars
    /\ [][ImuAlreadyInitialised
          => (main_pc' = "idle" /\ main_ret' /\ HandlesAndThreadsUnchanged)]_vars
    /\ [][(mcu_pc' = "start" /\ mcu_pc # "start") => mcu_pc = "none"]_vars
    /\ [][(imu_pc' = "start" /\ imu_pc # "start") => imu_pc = "none"]_vars

(***************************************************************************)
(* The command-id field of the response slot.  Reads of fewer than 16      *)
(* bytes are added here: hid_packet is declared in the loop body without    *)
(* an initialiser, so the bytes from offset res on are whatever the stack   *)
(* slot holds, and the classification at offset 14 reads them.              *)
(***************************************************************************)
\* what the bytes of hid_packet beyond a short read may hold: zeros, an
\* earlier event (id 1) and a packet whose id field is 0x0100
StalePackets ==
    {Zeros(PacketSize), EventFrames[1], DeviceFrame(McuMagic, 256, 7, <<1>>)}

\* reads shorter than 16 bytes that carry the control marker: the first 2
\* and the first 15 bytes of a reply, the first 15 bytes of an event
ShortMarkedFrames ==
    {SubSeq(ResponseFrames[1], 1, 2), SubSeq(ResponseFrames[1], 1, 15),
     SubSeq(EventFrames[1], 1, 15)}

\* hid_read_timeout returns fewer than 16 bytes with the marker; the loop
\* body as in mcu_thread_read_packet, on hid_packet = the bytes read followed
\* by the bytes the array held before (stale)
mcu_thread_read_short(stale) ==
    /\ mcu_pc = "read"
    /\ mcu_rx # << >>
    /\ Len(Head(mcu_rx)) < 16
    /\ HasMcuMagic(Head(mcu_rx))
    /\ LET res == Len(Head(mcu_rx))
           pkt == Head(mcu_rx) \o SubSeq(stale, res + 1, PacketSize)
           class == mcu_classify(pkt, res)
       IN  /\ mcu_rx' = Tail(mcu_rx)
           /\ g_mcu_rsp' = IF class = "response"
                           THEN MemCpy(g_mcu_rsp, 0, pkt, res) ELSE g_mcu_rsp
           /\ events' = IF class = "event"
                        THEN event_update(events, ext_mcu_event_callback, pkt, res)
                        ELSE events
           /\ mcu_pc' = IF class = "response" THEN "rel_lock" ELSE "loop"
           /\ cseen' = IF class = "response" /\ parse_rsp(pkt, res).data_len > 0
                       THEN [c \in Callers |->
                               IF InWaitWindow(c)
                               THEN cseen[c] \cup {At(pkt, HeaderLen)}
                               ELSE cseen[c]]
                       ELSE cseen
           /\ rx_statuses' = IF class = "response" /\ parse_rsp(pkt, res).data_len > 0
                             THEN rx_statuses \cup {At(pkt, HeaderLen)}
                             ELSE rx_statuses
    /\ UNCHANGED <<progVars, cbVars, pureVars, appVars, syncVars, mainVars, cpc, cdev, cdata, cwret,
                   cresult, ckind, ncalls, hidVars, imuVars, mcu_thread_flag,
                   dev_inbox, nevents, leaked>>

NextShort ==
    \/ \E c \in LifeCallers : CallerStep(c)
    \/ McuStep
    \/ \E stale \in StalePackets : mcu_thread_read_short(stale)
    \/ \E frame \in ControlFrames \cup ShortMarkedFrames : DeviceSendControl(frame)

SpecShort == InitRunning /\ [][NextShort]_vars

\* cmd_exec's test at line 449 succeeds: the id parsed from the slot is not 0
DiagnosticCmdIdNotZero(c) ==
    CallerExtracts(c) /\ parse_rsp(g_mcu_rsp, RspBufSize).cmd_id # 0

\* C39: bytes [14,16) of g_mcu_rsp are 0 in every reachable state, whatever
\* the length of the reads, so no call that parses the slot finds an id other
\* than 0 and the "Response cmd_id not 0" branch is never taken.
C39_SlotCmdIdAlwaysZero ==
    /\ [](At(g_mcu_rsp, 14) = 0 /\ At(g_mcu_rsp, 15) = 0)
    /\ [][\A c \in Callers : ~DiagnosticCmdIdNotZero(c)]_vars

\* a call has returned a status parsed from the slot after the reader copied
\* a read of fewer than 16 bytes into it, and an event was delivered as well
C39_Witness ==
    /\ cpc[1] = "idle" /\ ckind[1] = "status"
    /\ \E i \in 1..Len(Taken(sent_mcu, mcu_rx)) :
          /\ Len(Taken(sent_mcu, mcu_rx)[i]) = 15
          /\ Taken(sent_mcu, mcu_rx)[i] = SubSeq(ResponseFrames[1], 1, 15)
    /\ g_mcu_rsp # Zeros(RspBufSize)

=============================================================================
